---- MODULE Spec2Model ----
(***************************************************************************)
(* State-machine model of the WebTag 6DoF locator: the per-feature Kalman  *)
(* tracker (LEDTracker / SimpleKalman) and the detection state machine of  *)
(* the main application controller.                                        *)
(*                                                                         *)
(* Numbers.  The program computes in IEEE doubles.  The model computes in  *)
(* fixed point: a position, a covariance or a gain g is the integer        *)
(* round(g * One).  Every arithmetic step of the code is kept, followed by *)
(* a rounding to the grid.                                                 *)
(***************************************************************************)
EXTENDS Integers, Sequences, FiniteSets, TLC

\* ------------------------------------------------------------------------
\* Fixed-point helpers
\* ------------------------------------------------------------------------

\* the fixed-point representation of 1.0 (SimpleKalman: this.P = 1)
One == 1000

\* a / b rounded to the nearest integer (b > 0)
Round(a, b) == (2 * a + b) \div (2 * b)

\* ------------------------------------------------------------------------
\* Bounds of the model
\* ------------------------------------------------------------------------

\* ids that detections and configured id lists are drawn from
NumIds == 2

\* largest value of maxLostFrames a tracker is constructed with
MaxMaxLost == 2

\* non-empty update() calls between two resets of the tracker
MaxObs == 2

\* ------------------------------------------------------------------------
\* SimpleKalman
\* ------------------------------------------------------------------------

\* constructor arguments used by the application (0.005 and 0.5)
ProcessNoise == 5
MeasurementNoise == 500

NewKalman == [x |-> 0, P |-> One, initialized |-> FALSE]

KalmanUpdate(f, measurement) ==
  IF ~f.initialized
  THEN [x |-> measurement, P |-> One, initialized |-> TRUE]
  ELSE LET P_pred == f.P + ProcessNoise
           K      == Round(One * P_pred, P_pred + MeasurementNoise)
       IN  [x |-> f.x + Round(K * (measurement - f.x), One),
            P |-> Round((One - K) * P_pred, One),
            initialized |-> TRUE]

KalmanPredict(f) == f.x

\* reset() that clears the estimate and leaves the filter initialized
KalmanResetKeepsInit(f) == [f EXCEPT !.x = 0, !.P = One]

KalmanReset(f) == [f EXCEPT !.x = 0, !.P = One, !.initialized = FALSE]

\* ------------------------------------------------------------------------
\* LEDTracker
\* ------------------------------------------------------------------------

\* lastPositions[id] = null
NullPos == [has |-> FALSE, x |-> 0, y |-> 0]

\* the ids of the five-LED revision of the tracker (for id = 1..5)
LegacyIds == <<1, 2, 3, 4, 5>>

Range(s) == {s[i] : i \in 1..Len(s)}

\* new LEDTracker(config); legacy selects the five-LED revision of the class
NewTracker(legacy, maxLost, minTrack, ids) ==
  LET fids == IF legacy THEN LegacyIds ELSE ids
  IN [legacy |-> legacy,
      maxLostFrames |-> maxLost,
      minTrackingFeatures |-> minTrack,
      featureIds |-> fids,
      filters |-> [id \in Range(fids) |-> [x |-> NewKalman, y |-> NewKalman]],
      lostCount |-> [id \in Range(fids) |-> 0],
      lastPositions |-> [id \in Range(fids) |-> NullPos],
      isTracking |-> FALSE,
      consecutiveLost |-> 0]

\* detectedPoints.find(p => p.id === id): index of the first match, 0 if none
FindDet(detectedPoints, id) ==
  IF \E i \in 1..Len(detectedPoints) : detectedPoints[i].id = id
  THEN CHOOSE i \in 1..Len(detectedPoints) :
         /\ detectedPoints[i].id = id
         /\ \A j \in 1..(i-1) : detectedPoints[j].id # id
  ELSE 0

\* update() that drops a feature as soon as it is not observed
FeatureStepNoPredict(t, detectedPoints, id) ==
  LET k == FindDet(detectedPoints, id)
  IN IF k # 0
     THEN LET det == detectedPoints[k]
              fxf == KalmanUpdate(t.filters[id].x, det.x)
              fyf == KalmanUpdate(t.filters[id].y, det.y)
          IN [filter |-> [x |-> fxf, y |-> fyf],
              lost |-> 0,
              last |-> [has |-> TRUE, x |-> fxf.x, y |-> fyf.x],
              out |-> << [id |-> id, x |-> fxf.x, y |-> fyf.x,
                          detected |-> TRUE, predicted |-> FALSE] >>]
     ELSE [filter |-> t.filters[id],
           lost |-> t.lostCount[id] + 1,
           last |-> t.lastPositions[id],
           out |-> << >>]

\* update() that predicts a lost feature without asking for its last position
FeatureStepNoLastCheck(t, detectedPoints, id) ==
  LET k == FindDet(detectedPoints, id)
  IN IF k # 0
     THEN LET det == detectedPoints[k]
              fxf == KalmanUpdate(t.filters[id].x, det.x)
              fyf == KalmanUpdate(t.filters[id].y, det.y)
          IN [filter |-> [x |-> fxf, y |-> fyf],
              lost |-> 0,
              last |-> [has |-> TRUE, x |-> fxf.x, y |-> fyf.x],
              out |-> << [id |-> id, x |-> fxf.x, y |-> fyf.x,
                          detected |-> TRUE, predicted |-> FALSE] >>]
     ELSE LET lost == t.lostCount[id] + 1
          IN [filter |-> t.filters[id],
              lost |-> lost,
              last |-> t.lastPositions[id],
              out |-> IF lost <= t.maxLostFrames
                      THEN << [id |-> id,
                               x |-> KalmanPredict(t.filters[id].x),
                               y |-> KalmanPredict(t.filters[id].y),
                               detected |-> FALSE, predicted |-> TRUE] >>
                      ELSE << >>]

\* one iteration of the loop of update(): the new filter pair, lost counter and
\* last position of id, and the entries pushed to tracked (none or one)
FeatureStep(t, detectedPoints, id) ==
  LET k == FindDet(detectedPoints, id)
  IN IF k # 0
     THEN LET det == detectedPoints[k]
              fxf == KalmanUpdate(t.filters[id].x, det.x)
              fyf == KalmanUpdate(t.filters[id].y, det.y)
          IN [filter |-> [x |-> fxf, y |-> fyf],
              lost |-> 0,
              last |-> [has |-> TRUE, x |-> fxf.x, y |-> fyf.x],
              out |-> << [id |-> id, x |-> fxf.x, y |-> fyf.x,
                          detected |-> TRUE, predicted |-> FALSE] >>]
     ELSE LET lost == t.lostCount[id] + 1
          IN [filter |-> t.filters[id],
              lost |-> lost,
              last |-> t.lastPositions[id],
              out |-> IF lost <= t.maxLostFrames /\ t.lastPositions[id].has
                      THEN << [id |-> id,
                               x |-> KalmanPredict(t.filters[id].x),
                               y |-> KalmanPredict(t.filters[id].y),
                               detected |-> FALSE, predicted |-> TRUE] >>
                      ELSE << >>]

RECURSIVE TrackedList(_, _)
\* the array tracked: the entries the iterations pushed, in the order of ids
TrackedList(steps, ids) ==
  IF ids = << >> THEN << >>
  ELSE steps[Head(ids)].out \o TrackedList(steps, Tail(ids))

\* the health test with > in place of >=
EnoughTrackedStrict(t, trackedCount) ==
  IF t.legacy THEN trackedCount > 5
  ELSE trackedCount > t.minTrackingFeatures

\* the test that decides whether tracking is healthy
\* (trackedCount >= this.minTrackingFeatures; trackedCount === 5 in the
\* five-LED revision)
EnoughTracked(t, trackedCount) ==
  IF t.legacy THEN trackedCount = 5
  ELSE trackedCount >= t.minTrackingFeatures

\* trackedCount / this.featureIds.length (trackedCount / 5 in the five-LED
\* revision), kept as the pair of its operands: den = 0 is the NaN of 0 / 0
Stability(t, trackedCount) ==
  [num |-> trackedCount, den |-> IF t.legacy THEN 5 ELSE Len(t.featureIds)]

\* update(detectedPoints): the tracker afterwards (t) and the returned object
TrackerUpdate(t, detectedPoints) ==
  LET ids          == Range(t.featureIds)
      steps        == [id \in ids |-> FeatureStep(t, detectedPoints, id)]
      tracked      == TrackedList(steps, t.featureIds)
      trackedCount == Len(tracked)
      enough       == EnoughTracked(t, trackedCount)
      consLost     == IF enough THEN 0 ELSE t.consecutiveLost + 1
      isTr         == IF enough THEN TRUE
                      ELSE IF consLost > t.maxLostFrames THEN FALSE
                      ELSE t.isTracking
  IN [t |-> [t EXCEPT !.filters = [id \in ids |-> steps[id].filter],
                      !.lostCount = [id \in ids |-> steps[id].lost],
                      !.lastPositions = [id \in ids |-> steps[id].last],
                      !.consecutiveLost = consLost,
                      !.isTracking = isTr],
      ret |-> [tracked |-> tracked, isTracking |-> isTr,
               stability |-> Stability(t, trackedCount)]]

RECURSIVE PredictionList(_, _)
PredictionList(t, ids) ==
  IF ids = << >> THEN << >>
  ELSE (IF t.lastPositions[Head(ids)].has
        THEN << [id |-> Head(ids),
                 x |-> KalmanPredict(t.filters[Head(ids)].x),
                 y |-> KalmanPredict(t.filters[Head(ids)].y)] >>
        ELSE << >>)
       \o PredictionList(t, Tail(ids))

\* getPredictions() that leaves out the features update() no longer predicts
GetPredictionsRecent(t) ==
  LET Recent(p) == t.lostCount[p.id] <= t.maxLostFrames
  IN SelectSeq(PredictionList(t, t.featureIds), Recent)

\* getPredictions()
GetPredictions(t) == PredictionList(t, t.featureIds)

\* reset()
TrackerReset(t) ==
  [t EXCEPT !.filters = [id \in Range(t.featureIds) |->
                           [x |-> KalmanReset(t.filters[id].x),
                            y |-> KalmanReset(t.filters[id].y)]],
            !.lostCount = [id \in Range(t.featureIds) |-> 0],
            !.lastPositions = [id \in Range(t.featureIds) |-> NullPos],
            !.isTracking = FALSE,
            !.consecutiveLost = 0]

\* setFeatureIds(ids) that keeps what it holds for the ids it already knows
SetFeatureIdsKeepsShared(t, ids) ==
  LET old == Range(t.featureIds)
  IN [t EXCEPT !.featureIds = ids,
               !.filters = [id \in Range(ids) |->
                              IF id \in old THEN t.filters[id]
                              ELSE [x |-> NewKalman, y |-> NewKalman]],
               !.lostCount = [id \in Range(ids) |->
                                IF id \in old THEN t.lostCount[id] ELSE 0],
               !.lastPositions = [id \in Range(ids) |->
                                    IF id \in old THEN t.lastPositions[id]
                                    ELSE NullPos],
               !.isTracking = FALSE,
               !.consecutiveLost = 0]

\* setFeatureIds(ids)
SetFeatureIds(t, ids) ==
  [t EXCEPT !.featureIds = ids,
            !.filters = [id \in Range(ids) |-> [x |-> NewKalman, y |-> NewKalman]],
            !.lostCount = [id \in Range(ids) |-> 0],
            !.lastPositions = [id \in Range(ids) |-> NullPos],
            !.isTracking = FALSE,
            !.consecutiveLost = 0]

\* ------------------------------------------------------------------------
\* Application controller: pure parts of the per-frame pipeline
\* ------------------------------------------------------------------------

\* maxLostFrames the application constructs its tracker with
AppMaxLostFrames == 3

\* new LEDTracker({processNoise: 0.005, measurementNoise: 0.5, maxLostFrames: 3}):
\* the application pairs with the five-LED revision (numeric ids 1..5)
AppTracker == NewTracker(TRUE, AppMaxLostFrames, 5, LegacyIds)

\* squared distance of two points
Dist2(a, b) == (a.x - b.x) * (a.x - b.x) + (a.y - b.y) * (a.y - b.y)

\* search window of matchBlobsToPredictions (dist < 0.05)
SearchRadius == 50

\* cluster radius of quickCheck (dist < 0.15)
QuickRadius == 150

\* candidates quickCheck looks at (slice(0, 15)) and needs (minCount = 5)
QuickTop == 15
QuickMinCount == 5

\* geometryMatcher.quickCheck(blobs).promising
QuickCheck(candidates) ==
  IF Len(candidates) < QuickMinCount THEN FALSE
  ELSE LET n == IF Len(candidates) < QuickTop THEN Len(candidates) ELSE QuickTop
       IN \E i \in 1..n :
            Cardinality({j \in 1..n : j # i /\
               Dist2(candidates[i], candidates[j]) < QuickRadius * QuickRadius}) >= 4

\* an inner loop that does not skip used blobs
BestBlobReused(blobs, used, pred) ==
  LET inside == {i \in 1..Len(blobs) :
                   Dist2(blobs[i], pred) < SearchRadius * SearchRadius}
  IN IF inside = {} THEN 0
     ELSE CHOOSE i \in inside :
            \A j \in inside :
              \/ Dist2(blobs[i], pred) < Dist2(blobs[j], pred)
              \/ (Dist2(blobs[i], pred) = Dist2(blobs[j], pred) /\ i <= j)

\* inner loop of matchBlobsToPredictions: index of the closest unused blob
\* inside the search window (the first one among equally close blobs), 0 if none
BestBlob(blobs, used, pred) ==
  LET inside == {i \in 1..Len(blobs) : i \notin used /\
                   Dist2(blobs[i], pred) < SearchRadius * SearchRadius}
  IN IF inside = {} THEN 0
     ELSE CHOOSE i \in inside :
            \A j \in inside :
              \/ Dist2(blobs[i], pred) < Dist2(blobs[j], pred)
              \/ (Dist2(blobs[i], pred) = Dist2(blobs[j], pred) /\ i <= j)

RECURSIVE MatchFrom(_, _, _)
MatchFrom(blobs, preds, used) ==
  IF preds = << >> THEN << >>
  ELSE LET bestIdx == BestBlob(blobs, used, Head(preds))
       IN IF bestIdx > 0
          THEN << [id |-> Head(preds).id, x |-> blobs[bestIdx].x,
                   y |-> blobs[bestIdx].y] >>
                 \o MatchFrom(blobs, Tail(preds), used \cup {bestIdx})
          ELSE MatchFrom(blobs, Tail(preds), used)

\* matchBlobsToPredictions(blobs, predictions)
MatchBlobsToPredictions(blobs, preds) == MatchFrom(blobs, preds, {})

\* refinePositions(points): every point keeps its id and is moved to the
\* weighted centroid of the pixels around it; the pixels are the frame's, so
\* the displacement dx is an input of the frame (0: no offscreen canvas, or
\* no weight in the window)
RefinePositions(points, dx) ==
  [i \in 1..Len(points) |-> [points[i] EXCEPT !.x = points[i].x + dx]]

\* lastPose = null
NullPose == [has |-> FALSE, reprojError |-> 0]

\* reprojection error below which a solved pose is published (< 30)
ReprojThreshold == 30

\* ids of LED_GEOMETRY.points3D
GeometryIds == {1, 2, 3, 4, 5}

\* the correspondences solvePose hands to pnpSolver.solve: one per tracked
\* point whose id is in LED_GEOMETRY (0: it returns before calling the solver)
Correspondences(trackedPoints) ==
  LET n == Cardinality({i \in 1..Len(trackedPoints) :
                          trackedPoints[i].id \in GeometryIds})
  IN IF Len(trackedPoints) < 5 \/ n < 5 THEN 0 ELSE n

\* a solvePose that publishes every successful solve, whatever its error
SolvePoseAnyError(pose, trackedPoints, stability, result) ==
  IF Correspondences(trackedPoints) = 0 THEN pose
  ELSE IF result.success
       THEN [lastPose |-> [has |-> TRUE, reprojError |-> result.reprojError],
             poseStability |->
               Round(pose.poseStability * 800, One)
                 + Round(Round(One * stability.num, stability.den) * 200, One)]
       ELSE pose

\* solvePose(trackedPoints, stability); result is what pnpSolver.solve returned
\* for the correspondences; pose is the pair (lastPose, poseStability)
SolvePose(pose, trackedPoints, stability, result) ==
  IF Len(trackedPoints) < 5 THEN pose
  ELSE IF Cardinality({i \in 1..Len(trackedPoints) :
                         trackedPoints[i].id \in GeometryIds}) < 5 THEN pose
  ELSE IF result.success /\ result.reprojError < ReprojThreshold
       THEN [lastPose |-> [has |-> TRUE, reprojError |-> result.reprojError],
             poseStability |->
               Round(pose.poseStability * 800, One)
                 + Round(Round(One * stability.num, stability.den) * 200, One)]
       ELSE pose

\* what update() returns, before any call
NoResult == [tracked |-> << >>, isTracking |-> FALSE,
             stability |-> [num |-> 0, den |-> 1]]

\* a successful match that enters tracking without passing through locked
MatchedStatesSkipLocked == <<"tracking">>

\* the values assigned to state.detectionState, in order, on a successful match
MatchedStates == <<"locked", "tracking">>

\* a seeding that forgets to reset the tracker
SeedTrackerNoReset(t, refined) ==
  [u |-> TrackerUpdate(t, refined), calls |-> <<"update">>]

\* tracker.reset(); tracker.update(refined) on a successful match
SeedTracker(t, refined) ==
  [u |-> TrackerUpdate(TrackerReset(t), refined), calls |-> <<"reset", "update">>]

\* a fallback to scanning that does not ask the tracker
LostStatesAlways(lostResult) == <<"scanning">>

\* the assignment made after tracker.update([]) on a frame that failed to
\* re-acquire
LostStates(lostResult) ==
  IF ~lostResult.isTracking THEN <<"scanning">> ELSE << >>

\* a re-acquisition that accepts any number of matched predictions
FullyMatchedAny(matched) == TRUE

\* matched.length === 5: every prediction found a candidate
FullyMatched(matched) == Len(matched) = 5

\* processDetection(blobs, filterResult) up to its call of solvePose.
\* in: the frame's inputs (blobs; match: the result of geometryMatcher.match;
\* refineDx).  The result holds the tracker afterwards, the values assigned
\* to state.detectionState in order (trace; none: the state is kept), the
\* tracker calls made (calls), the argument and result of the last update(),
\* the predictions read, the candidates matched to them (matched), and
\* whether solvePose is called with that result (solves).
ProcessDetection(detState, t, in) ==
  LET blobs == in.blobs
      candidateCount == Len(blobs)
      keep == [tracker |-> t,
               trace |-> << >>, calls |-> << >>, kind |-> "none",
               updArg |-> << >>, updRet |-> NoResult, preds |-> << >>,
               matched |-> << >>, solves |-> FALSE]
  IN
  IF detState = "tracking" /\ t.isTracking
  THEN LET preds   == GetPredictions(t)
           matched == MatchBlobsToPredictions(blobs, preds)
           refined == RefinePositions(matched, in.refineDx)
           u1      == TrackerUpdate(t, refined)
           t1      == IF FullyMatched(matched) THEN u1.t ELSE t
           lost    == TrackerUpdate(t1, << >>)
       IN IF FullyMatched(matched) /\ u1.ret.isTracking
          THEN [keep EXCEPT !.tracker = u1.t,
                            !.calls = <<"getPredictions", "update">>,
                            !.kind = "tracked",
                            !.updArg = refined, !.updRet = u1.ret,
                            !.preds = preds, !.matched = matched,
                            !.solves = TRUE]
          ELSE [keep EXCEPT !.tracker = lost.t,
                            !.trace = LostStates(lost.ret),
                            !.calls = IF FullyMatched(matched)
                                      THEN <<"getPredictions", "update", "update">>
                                      ELSE <<"getPredictions", "update">>,
                            !.kind = "lost",
                            !.updArg = << >>, !.updRet = lost.ret,
                            !.preds = preds, !.matched = matched]
  ELSE IF candidateCount < 5
  THEN [keep EXCEPT !.trace = <<"scanning">>, !.kind = "few"]
  ELSE LET promising == QuickCheck(blobs)
       IN IF in.match.success
          THEN LET refined == RefinePositions(in.match.points, in.refineDx)
                   seeded  == SeedTracker(t, refined)
               IN [keep EXCEPT !.tracker = seeded.u.t,
                               !.trace = MatchedStates,
                               !.calls = seeded.calls,
                               !.kind = "matched",
                               !.updArg = refined, !.updRet = seeded.u.ret,
                               !.solves = TRUE]
          ELSE IF promising
               THEN [keep EXCEPT !.trace = <<"candidate">>, !.kind = "nomatch"]
               ELSE [keep EXCEPT !.trace = <<"scanning">>, !.kind = "nomatch"]

\* state.detectionState after the assignments of trace
StateAfter(detState, trace) ==
  IF trace = << >> THEN detState ELSE trace[Len(trace)]

\* ------------------------------------------------------------------------
\* State
\* ------------------------------------------------------------------------

VARIABLES
  tracker,        \* the LEDTracker object
  trackResult,    \* the object returned by the last update()
  predictions,    \* the array returned by the last getPredictions()
  lastOp,         \* the operation that ran last ("other": a start step or a
                  \* frame callback that found the camera stopped)
  lastDets,       \* the argument of the last update() (<< >> after any other call)
  seen,           \* history: ids observed since construction / reset / setFeatureIds
  cleared,        \* history: featureIds and seen as the last reset() or
                  \* setFeatureIds() found them (NoCleared after any other call)
  emptyRun,       \* history: empty updates since an update that measured enough
                  \* features (-1: not in such a run)
  obsCount,       \* history: non-empty updates since construction / reset / setFeatureIds
  running,            \* state.running
  detectionState,     \* state.detectionState
  lastPose,           \* lastPose (NullPose: null)
  poseStability,      \* poseStability
  pendingFrames,      \* number of frame callbacks requested and not yet run or cancelled
  animFrameId,        \* state.animFrameId: "null", or the id of a callback that is
                      \* still pending ("live") or no longer pending ("stale")
  startsInFlight,     \* startCamera() calls suspended at an await
  startScreenVisible, \* the start screen (with the start button) is shown
  hasRVFC,            \* the browser has video.requestVideoFrameCallback
  frame,              \* history: what the last frame callback did (from:
                      \* state.detectionState when it began)
  poseCount,          \* history: poses published since the last reset click
  stopped,            \* history: no start has been requested since the capture
                      \* was last stopped (or since the page was loaded)
  call,               \* the component function called last, with its arguments
  ret,                \* what that call returned
  decoding,           \* state.decoding of the packet decoder
  symbolStream,       \* state.symbolStream
  capturing,          \* state.capturing
  captureSymbols,     \* state.captureSymbols
  decodeStatus,       \* ui.decodeStatus.textContent
  decodeEvent,        \* history: what the last frame did in attemptDecode
  reported,           \* history: the ID the last frame reported, -1 if none
  sinceStart,         \* history: symbols received since the capture began,
                      \* -1 when no capture has begun or the last one is over
  endedBefore,        \* history: a packet ended before the last frame
  detector,           \* the PeakDetector object
  detection,          \* history: the detect() calls made on the detector
  lm,                 \* the locals of a _levenbergMarquardt() call
  lmStep              \* history: what the last iteration of that call did

trackerVars == <<tracker, trackResult, predictions, lastOp, lastDets, seen,
                 cleared, emptyRun, obsCount>>

NoCleared == [ids |-> << >>, seen |-> {}]

appVars == <<running, detectionState, lastPose, poseStability, pendingFrames,
             animFrameId, startsInFlight, startScreenVisible, hasRVFC, frame,
             poseCount, stopped>>

decoderVars == <<decoding, symbolStream, capturing, captureSymbols,
                 decodeStatus, decodeEvent, reported, sinceStart, endedBefore>>

\* the packet decoder of the page as loaded
DecoderIdle ==
  /\ decoding = FALSE
  /\ symbolStream = << >>
  /\ capturing = FALSE
  /\ captureSymbols = << >>
  /\ decodeStatus = "Idle"
  /\ decodeEvent = "none"
  /\ reported = -1
  /\ sinceStart = -1
  /\ endedBefore = FALSE

detectorVars == <<detector, detection>>

\* a PeakDetector as its constructor leaves it (<< >>: no buffer, the null of
\* _scoreMap and _smoothed, the undefined of _tempBlur)
FreshDetector ==
  [scoreMap |-> << >>, smoothed |-> << >>, tempBlur |-> << >>,
   lastWidth |-> 0, lastHeight |-> 0]

\* no detect() call has been made (first: the first call and what it
\* returned; last: the last call and what it returned; calls: how many calls
\* were made; resized: some call came with another frame size than the first)
NoDetection ==
  [calls |-> 0, first |-> [fn |-> "none"], last |-> [fn |-> "none"],
   resized |-> FALSE]

DetectorIdle == detector = FreshDetector /\ detection = NoDetection

refineVars == <<lm, lmStep>>

\* no _levenbergMarquardt() call is running
NoRefinement == [pc |-> "idle"]

\* no iteration has run
NoStep == [kind |-> "none"]

RefineIdle == lm = NoRefinement /\ lmStep = NoStep

compVars == <<call, ret, decoderVars, detectorVars, refineVars>>

\* no component function has been called on its own
NoCall == [fn |-> "none"]
CompIdle ==
  call = NoCall /\ ret = NoCall /\ DecoderIdle /\ DetectorIdle /\ RefineIdle

vars == <<trackerVars, appVars, compVars>>

\* the frame history when no detection ran (correspondences: how many the
\* pose solver was called with, 0 when it was not called; solve: what it
\* returned)
NoFrame == [kind |-> "none", from |-> "none", trace |-> << >>,
            calls |-> << >>, matchPoints |-> << >>, matched |-> << >>,
            refineDx |-> 0, correspondences |-> 0,
            solve |-> [success |-> FALSE, reprojError |-> 0]]

\* the application before init() has run any handler
AppIdle ==
  /\ running = FALSE
  /\ detectionState = "idle"
  /\ lastPose = NullPose
  /\ poseStability = 0
  /\ pendingFrames = 0
  /\ animFrameId = "null"
  /\ startsInFlight = 0
  /\ startScreenVisible = TRUE
  /\ frame = NoFrame
  /\ poseCount = 0
  /\ stopped = TRUE

\* ------------------------------------------------------------------------
\* The tracker on its own: any sequence of update, getPredictions, reset and
\* setFeatureIds calls
\* ------------------------------------------------------------------------

\* observed positions (x, y) that detections carry
DetPositions == {[x |-> 400, y |-> 300], [x |-> 430, y |-> 700]}

DetUniverse ==
  {[id |-> i, x |-> p.x, y |-> p.y] : i \in 1..NumIds, p \in DetPositions}

RECURSIVE SeqsUpTo(_, _)
SeqsUpTo(S, n) ==
  IF n = 0 THEN {<< >>}
  ELSE LET shorter == SeqsUpTo(S, n - 1)
       IN shorter \cup {Append(s, e) : s \in {q \in shorter : Len(q) = n - 1}, e \in S}

IsIncreasing(s) == \A i, j \in 1..Len(s) : i < j => s[i] < s[j]

\* id lists a tracker is configured with: every set of ids, the empty one
\* included, listed in increasing order
IdLists == {s \in SeqsUpTo(1..NumIds, NumIds) : IsIncreasing(s)}

RECURSIVE AllAt(_, _)
\* one detection per id of ids, all at position p
AllAt(ids, p) ==
  IF ids = << >> THEN << >>
  ELSE << [id |-> Head(ids), x |-> p.x, y |-> p.y] >> \o AllAt(Tail(ids), p)

\* detection lists given to update(): the empty list, every single detection
\* of DetUniverse (unknown ids included), every feature at one position, and
\* every feature twice at two positions (repeated ids)
DetLists(t) ==
  {<< >>}
    \cup {<<d>> : d \in DetUniverse}
    \cup {AllAt(t.featureIds, p) : p \in DetPositions}
    \cup {AllAt(t.featureIds, pq[1]) \o AllAt(t.featureIds, pq[2]) :
            pq \in {r \in DetPositions \X DetPositions : r[1] # r[2]}}

\* number of features of t that detectedPoints observes
MeasuredCount(t, detectedPoints) ==
  Cardinality({id \in Range(t.featureIds) : FindDet(detectedPoints, id) # 0})

TrackerInit ==
  /\ \E legacy \in BOOLEAN, maxLost \in {1, MaxMaxLost} :
       \/ /\ legacy
          /\ tracker = NewTracker(TRUE, maxLost, 5, LegacyIds)
       \/ /\ ~legacy
          /\ \E minTrack \in {1, NumIds}, ids \in IdLists :
               tracker = NewTracker(FALSE, maxLost, minTrack, ids)
  /\ trackResult = NoResult
  /\ predictions = << >>
  /\ lastOp = "new"
  /\ lastDets = << >>
  /\ seen = {}
  /\ cleared = NoCleared
  /\ emptyRun = -1
  /\ obsCount = 0
  /\ AppIdle
  /\ hasRVFC = TRUE
  /\ CompIdle

\* history kept along update(detectedPoints)
UpdateHistory(detectedPoints) ==
  /\ lastDets' = detectedPoints
  /\ seen' = seen \cup {id \in Range(tracker.featureIds) :
                          FindDet(detectedPoints, id) # 0}
  /\ emptyRun' =
       IF EnoughTracked(tracker, MeasuredCount(tracker, detectedPoints)) THEN 0
       ELSE IF detectedPoints = << >> /\ emptyRun >= 0 THEN emptyRun + 1
       ELSE -1
  /\ obsCount' = IF detectedPoints = << >> THEN obsCount ELSE obsCount + 1

\* the counters of update() grow without bound; the model stops where a run of
\* empty updates has ended tracking
CanUpdate(t) ==
  /\ t.consecutiveLost < 2 * t.maxLostFrames + 1
  /\ \A id \in Range(t.featureIds) : t.lostCount[id] < 2 * t.maxLostFrames + 1

TUpdate ==
  /\ CanUpdate(tracker)
  /\ \E detectedPoints \in DetLists(tracker) :
       /\ detectedPoints # << >> => obsCount < MaxObs
       /\ tracker' = TrackerUpdate(tracker, detectedPoints).t
       /\ trackResult' = TrackerUpdate(tracker, detectedPoints).ret
       /\ UpdateHistory(detectedPoints)
  /\ lastOp' = "update"
  /\ predictions' = << >>
  /\ cleared' = NoCleared

TGetPredictions ==
  /\ predictions' = GetPredictions(tracker)
  /\ lastOp' = "getPredictions"
  /\ trackResult' = NoResult
  /\ lastDets' = << >>
  /\ cleared' = NoCleared
  /\ UNCHANGED <<tracker, seen, emptyRun, obsCount>>

TReset ==
  /\ tracker' = TrackerReset(tracker)
  /\ lastOp' = "reset"
  /\ cleared' = [ids |-> tracker.featureIds, seen |-> seen]
  /\ seen' = {}
  /\ emptyRun' = -1
  /\ obsCount' = 0
  /\ trackResult' = NoResult
  /\ predictions' = << >>
  /\ lastDets' = << >>

TSetFeatureIds ==
  /\ ~tracker.legacy
  /\ \E ids \in IdLists : tracker' = SetFeatureIds(tracker, ids)
  /\ lastOp' = "setFeatureIds"
  /\ cleared' = [ids |-> tracker.featureIds, seen |-> seen]
  /\ seen' = {}
  /\ emptyRun' = -1
  /\ obsCount' = 0
  /\ trackResult' = NoResult
  /\ predictions' = << >>
  /\ lastDets' = << >>

TrackerNext ==
  /\ TUpdate \/ TGetPredictions \/ TReset \/ TSetFeatureIds
  /\ UNCHANGED <<appVars, compVars>>

TrackerSpec == TrackerInit /\ [][TrackerNext]_vars

\* ------------------------------------------------------------------------
\* Properties of the tracker (checked under TrackerSpec)
\* ------------------------------------------------------------------------

\* C4 as stated: after an update that measured enough features, the k-th
\* update in a row with zero detections leaves isTracking true for
\* k <= maxLostFrames and false from k = maxLostFrames + 1 on.
C4_FalseAfterMaxLost ==
  (lastOp = "update" /\ emptyRun >= 0) =>
    (trackResult.isTracking <=> emptyRun <= tracker.maxLostFrames)

\* C4 amended: the features measured last are predicted during the first
\* maxLostFrames empty updates, which therefore still count as tracked; the
\* consecutive-lost counter starts only then.  isTracking stays true for the
\* first 2 * maxLostFrames empty updates and is false at exactly update
\* 2 * maxLostFrames + 1.
C4_FalseAfterTwiceMaxLost ==
  (lastOp = "update" /\ emptyRun >= 0) =>
    /\ trackResult.isTracking = tracker.isTracking
    /\ tracker.isTracking <=> emptyRun <= 2 * tracker.maxLostFrames

C4_Witness ==
  /\ lastOp = "update"
  /\ emptyRun = 2 * tracker.maxLostFrames + 1
  /\ ~tracker.isTracking

\* C5: every update() sets consecutiveLost to 0 when enough features were
\* emitted in that call and adds one to it otherwise; enough emitted features
\* make isTracking true; and in every state isTracking is false when
\* consecutiveLost exceeds maxLostFrames.
C5_ConsecutiveLost ==
  /\ [](tracker.consecutiveLost > tracker.maxLostFrames => ~tracker.isTracking)
  /\ [][lastOp' = "update" =>
          LET n      == Len(trackResult'.tracked)
              enough == IF tracker.legacy THEN n = 5
                        ELSE n >= tracker.minTrackingFeatures
          IN /\ tracker'.consecutiveLost =
                  IF enough THEN 0 ELSE tracker.consecutiveLost + 1
             /\ enough => tracker'.isTracking
             /\ trackResult'.isTracking = tracker'.isTracking]_vars

C5_Witness ==
  /\ lastOp = "update"
  /\ lastDets # << >>
  /\ tracker.consecutiveLost > tracker.maxLostFrames
  /\ ~trackResult.isTracking

\* C6: in update(), a recognized feature that is not observed has its lost
\* counter incremented and is emitted, as a predicted entry at the filter's
\* state, exactly when the new counter is <= maxLostFrames and it has a last
\* position; an observed feature is emitted once as measured and its counter
\* is 0; a feature not observed since construction, reset or setFeatureIds is
\* not emitted; nothing else is emitted.
C6_FeatureEmission ==
  [][lastOp' = "update" =>
       LET dets == lastDets'
           out  == trackResult'.tracked
           At(id) == {i \in 1..Len(out) : out[i].id = id}
           Observed(id) == \E k \in 1..Len(dets) : dets[k].id = id
       IN /\ \A i \in 1..Len(out) : out[i].id \in Range(tracker.featureIds)
          /\ \A id \in Range(tracker.featureIds) :
               /\ Cardinality(At(id)) <= 1
               /\ Observed(id) =>
                    /\ \E i \in At(id) : out[i].detected /\ ~out[i].predicted
                    /\ tracker'.lostCount[id] = 0
               /\ ~Observed(id) =>
                    /\ tracker'.lostCount[id] = tracker.lostCount[id] + 1
                    /\ At(id) # {} <=>
                         /\ tracker'.lostCount[id] <= tracker.maxLostFrames
                         /\ tracker.lastPositions[id].has
                    /\ \A i \in At(id) :
                         /\ out[i].predicted /\ ~out[i].detected
                         /\ out[i].x = tracker.filters[id].x.x
                         /\ out[i].y = tracker.filters[id].y.x
               /\ id \notin seen' => At(id) = {}]_vars

C6_Witness ==
  /\ lastOp = "update"
  /\ \E i \in 1..Len(trackResult.tracked) : trackResult.tracked[i].predicted
  /\ \E id \in Range(tracker.featureIds) \ seen :
       tracker.lostCount[id] <= tracker.maxLostFrames

\* C7: the stability every update() returns is a number in [0,1], the number
\* of entries emitted in that call divided by the number of recognized ids.
C7_Stability ==
  lastOp = "update" =>
    /\ trackResult.stability.den > 0
    /\ trackResult.stability.num >= 0
    /\ trackResult.stability.num <= trackResult.stability.den
    /\ trackResult.stability.num = Len(trackResult.tracked)
    /\ trackResult.stability.den = Len(tracker.featureIds)

\* C8: reset() keeps the id list and leaves the tracker equal to a newly
\* constructed one with that list (filters uninitialized, counters 0, last
\* positions cleared, not tracking), so that getPredictions() is empty; and the
\* first observation of a feature since construction or reset comes back as
\* the raw measurement.
C8_Reset ==
  [][/\ lastOp' = "reset" =>
          /\ tracker'.featureIds = tracker.featureIds
          /\ tracker' = NewTracker(tracker.legacy, tracker.maxLostFrames,
                                   tracker.minTrackingFeatures,
                                   tracker.featureIds)
          /\ \A id \in Range(tracker'.featureIds) :
               /\ ~tracker'.filters[id].x.initialized
               /\ ~tracker'.filters[id].y.initialized
               /\ tracker'.lostCount[id] = 0
               /\ ~tracker'.lastPositions[id].has
          /\ tracker'.consecutiveLost = 0
          /\ ~tracker'.isTracking
          /\ GetPredictions(tracker') = << >>
     /\ lastOp' = "update" =>
          LET dets == lastDets'
              out  == trackResult'.tracked
          IN \A id \in Range(tracker.featureIds) \ seen :
               \A k \in 1..Len(dets) :
                 (dets[k].id = id /\ \A j \in 1..(k - 1) : dets[j].id # id) =>
                   \E i \in 1..Len(out) :
                     /\ out[i].id = id
                     /\ out[i].x = dets[k].x
                     /\ out[i].y = dets[k].y]_vars

C8_Witness ==
  /\ lastOp = "reset"
  /\ cleared.seen # {}
  /\ tracker.featureIds = cleared.ids

\* C9: getPredictions() returns, for every recognized id observed since
\* construction, reset or setFeatureIds (however long it has been lost), one
\* entry holding the filters' states, returns nothing for any other id, and
\* leaves the tracker as it was.
C9_GetPredictions ==
  [][lastOp' = "getPredictions" =>
       LET ps == predictions'
           At(id) == {i \in 1..Len(ps) : ps[i].id = id}
       IN /\ tracker' = tracker
          /\ \A i \in 1..Len(ps) : ps[i].id \in Range(tracker.featureIds)
          /\ \A id \in Range(tracker.featureIds) :
               /\ Cardinality(At(id)) = IF id \in seen THEN 1 ELSE 0
               /\ \A i \in At(id) :
                    /\ ps[i].x = tracker.filters[id].x.x
                    /\ ps[i].y = tracker.filters[id].y.x]_vars

C9_Witness ==
  /\ lastOp = "getPredictions"
  /\ \E i \in 1..Len(predictions) :
       tracker.lostCount[predictions[i].id] > tracker.maxLostFrames
  /\ Range(tracker.featureIds) \ seen # {}

\* C10: after setFeatureIds(ids) the filters, lost counters and last positions
\* exist for exactly the new ids, every one of them as newly constructed (also
\* for ids of the old list), consecutiveLost is 0 and isTracking is false.
C10_SetFeatureIds ==
  lastOp = "setFeatureIds" =>
    LET ids == Range(tracker.featureIds)
    IN /\ DOMAIN tracker.filters = ids
       /\ DOMAIN tracker.lostCount = ids
       /\ DOMAIN tracker.lastPositions = ids
       /\ \A id \in ids :
            /\ tracker.filters[id].x = [x |-> 0, P |-> One, initialized |-> FALSE]
            /\ tracker.filters[id].y = [x |-> 0, P |-> One, initialized |-> FALSE]
            /\ tracker.lostCount[id] = 0
            /\ ~tracker.lastPositions[id].has
       /\ tracker.consecutiveLost = 0
       /\ ~tracker.isTracking

C10_Witness ==
  /\ lastOp = "setFeatureIds"
  /\ cleared.seen \cap Range(tracker.featureIds) # {}
  /\ Range(tracker.featureIds) \ Range(cleared.ids) # {}

\* ------------------------------------------------------------------------
\* The application: start, stop, reset and the frame callbacks
\* ------------------------------------------------------------------------

\* in-flight startCamera() calls, and frame callbacks alive at once
MaxStarts == 1
MaxCallbacks == 2

\* poses published between two clicks of the reset button
MaxPoses == 1

\* the five-LED pattern in the image, shifted right by dx (normalized * One)
PatternAt(dx) ==
  << [id |-> 1, x |-> 550 + dx, y |-> 432],
     [id |-> 2, x |-> 550 + dx, y |-> 497],
     [id |-> 3, x |-> 450 + dx, y |-> 497],
     [id |-> 4, x |-> 450 + dx, y |-> 432],
     [id |-> 5, x |-> 500 + dx, y |-> 370] >>

\* shifts of the pattern that scenes show
PatternShifts == {0}

\* blobs carry no id
Blob(p) == [x |-> p.x, y |-> p.y]
BlobsOf(pts) == [i \in 1..Len(pts) |-> Blob(pts[i])]

NoiseBlob == [x |-> 100, y |-> 100]

SparseScene ==
  << NoiseBlob, [x |-> 900, y |-> 100], [x |-> 100, y |-> 900],
     [x |-> 900, y |-> 900], [x |-> 500, y |-> 700] >>

\* blob lists a frame can show: four of the five LEDs, five blobs far apart,
\* the pattern, and the pattern behind a brighter blob
Scenes ==
  {SparseScene, SubSeq(BlobsOf(PatternAt(0)), 1, 4),
   <<NoiseBlob>> \o BlobsOf(PatternAt(0))}
    \cup {BlobsOf(PatternAt(d)) : d \in PatternShifts}

NoMatch == [success |-> FALSE, points |-> << >>]

\* what geometryMatcher.match can return for blobs: null, or the pattern
\* among the blobs labelled 1..5
MatchResults(blobs) ==
  {NoMatch} \cup
  {[success |-> TRUE, points |-> PatternAt(d)] :
     d \in {e \in PatternShifts : Range(BlobsOf(PatternAt(e))) \subseteq Range(blobs)}}

\* displacements of the sub-pixel refinement
RefineOffsets == {0, 4}

\* what pnpSolver.solve can return
NoSolve == [success |-> FALSE, reprojError |-> 0]
PoseOutcomes ==
  {NoSolve,
   [success |-> TRUE, reprojError |-> 5],
   [success |-> TRUE, reprojError |-> 30]}

\* the inputs of processDetection in one frame: the match result is read only
\* outside tracking
FrameInputs(detState, t) ==
  IF detState = "tracking" /\ t.isTracking
  THEN [blobs : Scenes, match : {NoMatch}, refineDx : RefineOffsets]
  ELSE UNION {[blobs : {b}, match : {m},
               refineDx : IF m.success THEN RefineOffsets ELSE {0}] :
                <<b, m>> \in UNION {{b} \X MatchResults(b) : b \in Scenes}}

Init ==
  /\ tracker = AppTracker
  /\ trackResult = NoResult
  /\ predictions = << >>
  /\ lastOp = "init"
  /\ lastDets = << >>
  /\ seen = {}
  /\ cleared = NoCleared
  /\ emptyRun = -1
  /\ obsCount = 0
  /\ AppIdle
  /\ hasRVFC \in BOOLEAN
  /\ CompIdle

\* a requestNextFrame() that never schedules a callback
RequestNextFrameNever(run, pend, anim) ==
  /\ pendingFrames' = pend
  /\ animFrameId' = anim

\* requestNextFrame(), called with state.running = run while pend callbacks
\* are pending and state.animFrameId = anim
RequestNextFrame(run, pend, anim) ==
  IF ~run THEN /\ pendingFrames' = pend
               /\ animFrameId' = anim
  ELSE /\ pendingFrames' = pend + 1
       /\ animFrameId' = IF hasRVFC THEN anim ELSE "live"

\* the start button is clicked: startCamera() runs up to its first await
StartClick ==
  /\ startScreenVisible
  /\ startsInFlight < MaxStarts
  /\ startsInFlight' = startsInFlight + 1
  /\ lastOp' = "other"
  /\ trackResult' = NoResult
  /\ predictions' = << >>
  /\ lastDets' = << >>
  /\ frame' = NoFrame
  /\ UNCHANGED <<tracker, seen, cleared, emptyRun, obsCount, poseCount, running,
                 detectionState, lastPose, poseStability, pendingFrames,
                 animFrameId, startScreenVisible, hasRVFC, compVars>>
  /\ stopped' = FALSE

\* an awaited promise of startCamera() rejects: the catch block runs
StartFail ==
  /\ startsInFlight > 0
  /\ startsInFlight' = startsInFlight - 1
  /\ lastOp' = "other"
  /\ trackResult' = NoResult
  /\ predictions' = << >>
  /\ lastDets' = << >>
  /\ frame' = NoFrame
  /\ UNCHANGED <<tracker, seen, cleared, emptyRun, obsCount, poseCount, running,
                 detectionState, lastPose, poseStability, pendingFrames,
                 animFrameId, startScreenVisible, hasRVFC, stopped, compVars>>

\* the last await of startCamera() resolves: the rest of the function runs
StartComplete ==
  /\ startsInFlight > 0
  /\ pendingFrames < MaxCallbacks
  /\ startsInFlight' = startsInFlight - 1
  /\ startScreenVisible' = FALSE
  /\ running' = TRUE
  /\ detectionState' = "scanning"
  /\ RequestNextFrame(TRUE, pendingFrames, animFrameId)
  /\ lastOp' = "other"
  /\ trackResult' = NoResult
  /\ predictions' = << >>
  /\ lastDets' = << >>
  /\ frame' = NoFrame
  /\ UNCHANGED <<tracker, seen, cleared, emptyRun, obsCount, poseCount, lastPose,
                 poseStability, hasRVFC, stopped, compVars>>

\* stopCamera()
StopCamera ==
  /\ running' = FALSE
  /\ pendingFrames' = IF animFrameId = "live" THEN pendingFrames - 1
                      ELSE pendingFrames
  /\ animFrameId' = "null"
  /\ tracker' = TrackerReset(tracker)
  /\ obsCount' = 0
  /\ detectionState' = "idle"
  /\ startScreenVisible' = TRUE
  /\ lastOp' = "stop"
  /\ trackResult' = NoResult
  /\ predictions' = << >>
  /\ lastDets' = << >>
  /\ frame' = NoFrame
  /\ emptyRun' = -1
  /\ UNCHANGED <<seen, cleared, poseCount, lastPose, poseStability,
                 startsInFlight, hasRVFC, compVars>>
  /\ stopped' = TRUE

\* click handler of the reset button
ResetClick ==
  /\ tracker' = TrackerReset(tracker)
  /\ obsCount' = 0
  /\ lastPose' = NullPose
  /\ poseStability' = 0
  /\ detectionState' = "scanning"
  /\ lastOp' = "reset"
  /\ poseCount' = 0
  /\ trackResult' = NoResult
  /\ predictions' = << >>
  /\ lastDets' = << >>
  /\ frame' = NoFrame
  /\ emptyRun' = -1
  /\ UNCHANGED <<seen, cleared, running, pendingFrames, animFrameId,
                 startsInFlight, startScreenVisible, hasRVFC, stopped, compVars>>

\* state.animFrameId once the callback which has been taken off the pending
\* callbacks
AnimAfter(which) == IF which = "anim" THEN "stale" ELSE animFrameId

\* processFrame(now) runs as a pending callback: the one state.animFrameId
\* names (which = "anim") or another one
ProcessFrame(which) ==
  /\ IF which = "anim" THEN animFrameId = "live"
     ELSE pendingFrames > (IF animFrameId = "live" THEN 1 ELSE 0)
  /\ IF ~running
     THEN /\ pendingFrames' = pendingFrames - 1
          /\ animFrameId' = AnimAfter(which)
          /\ lastOp' = "other"
          /\ trackResult' = NoResult
          /\ predictions' = << >>
          /\ lastDets' = << >>
          /\ frame' = NoFrame
          /\ UNCHANGED <<tracker, seen, cleared, emptyRun, obsCount, poseCount, running,
                         detectionState, lastPose, poseStability,
                         startsInFlight, startScreenVisible, hasRVFC, stopped, compVars>>
     ELSE \/ \* blueFilter.process returned null or threw: no detection
             /\ frame' = [NoFrame EXCEPT !.kind = "nofilter",
                                          !.from = detectionState]
             /\ trackResult' = NoResult
             /\ predictions' = << >>
             /\ lastDets' = << >>
             /\ lastOp' = "frame"
             /\ RequestNextFrame(TRUE, pendingFrames - 1, AnimAfter(which))
             /\ UNCHANGED <<tracker, seen, cleared, emptyRun, obsCount, poseCount,
                            running, detectionState, lastPose, poseStability,
                            startsInFlight, startScreenVisible, hasRVFC, stopped, compVars>>
          \/ \E in \in FrameInputs(detectionState, tracker) :
             \E out \in {ProcessDetection(detectionState, tracker, in)} :
             \E solve \in (IF out.solves THEN PoseOutcomes ELSE {NoSolve}) :
             \E pose \in {IF out.solves
                          THEN SolvePose([lastPose |-> lastPose,
                                          poseStability |-> poseStability],
                                         out.updRet.tracked,
                                         out.updRet.stability, solve)
                          ELSE [lastPose |-> lastPose,
                                poseStability |-> poseStability]} :
             \E n \in {IF out.kind = "matched" THEN 1
                       ELSE IF out.kind = "tracked" THEN obsCount + 1
                       ELSE obsCount},
                pc \in {IF pose.lastPose # lastPose
                           \/ pose.poseStability # poseStability
                        THEN poseCount + 1 ELSE poseCount} :
               \* the refinement is an input only of frames that refine
               /\ ~out.solves => in.refineDx = 0
               /\ n <= MaxObs
               /\ pc <= MaxPoses
               /\ poseCount' = pc
               /\ tracker' = out.tracker
               /\ detectionState' = StateAfter(detectionState, out.trace)
               /\ lastPose' = pose.lastPose
               /\ poseStability' = pose.poseStability
               /\ trackResult' = out.updRet
               /\ predictions' = out.preds
               /\ lastDets' = out.updArg
               /\ obsCount' = n
               /\ emptyRun' = IF out.kind \in {"matched", "tracked"} THEN 0
                               ELSE IF out.kind = "lost" /\ emptyRun >= 0
                                    THEN emptyRun + 1
                               ELSE emptyRun
               /\ frame' = [kind |-> out.kind, from |-> detectionState,
                            trace |-> out.trace,
                            calls |-> out.calls,
                            matchPoints |-> in.match.points,
                            matched |-> out.matched,
                            refineDx |-> in.refineDx,
                            correspondences |->
                              IF out.solves
                              THEN Correspondences(out.updRet.tracked) ELSE 0,
                            solve |-> solve]
               /\ lastOp' = "frame"
               /\ RequestNextFrame(TRUE, pendingFrames - 1, AnimAfter(which))
               /\ UNCHANGED <<seen, cleared, running, startsInFlight,
                              startScreenVisible, hasRVFC, stopped, compVars>>

FrameCallback == \E which \in {"anim", "other"} : ProcessFrame(which)

Next ==
  \/ StartClick
  \/ StartFail
  \/ StartComplete
  \/ StopCamera
  \/ ResetClick
  \/ FrameCallback

Spec == Init /\ [][Next]_vars

\* the video source keeps delivering frames: a requested callback runs
LiveSpec == Init /\ [][Next]_vars /\ WF_vars(FrameCallback)

\* ------------------------------------------------------------------------
\* Properties of the detection state machine (checked under Spec)
\* ------------------------------------------------------------------------

\* C1 as stated: state.detectionState is one of the five states, and apart
\* from stop and reset every change of it, each assignment of a frame taken
\* on its own, follows idle->scanning, scanning->candidate, candidate->locked,
\* locked->tracking, tracking->scanning or candidate->scanning.
C1_EdgesAsStated ==
  /\ [](detectionState \in {"idle", "scanning", "candidate", "locked", "tracking"})
  /\ [][lastOp' \notin {"stop", "reset"} =>
          LET edges == {<<"idle", "scanning">>, <<"scanning", "candidate">>,
                        <<"candidate", "locked">>, <<"locked", "tracking">>,
                        <<"tracking", "scanning">>, <<"candidate", "scanning">>}
              chain == <<detectionState>> \o
                         (IF lastOp' = "frame" THEN frame'.trace
                          ELSE <<detectionState'>>)
          IN \A i \in 1..(Len(chain) - 1) :
               chain[i] # chain[i + 1] => <<chain[i], chain[i + 1]>> \in edges]_vars

\* C1 amended: state.detectionState is one of the five states.  A frame
\* changes it only along scanning->locked or candidate->locked followed by
\* locked->tracking (successful match: a frame that starts in scanning goes
\* to locked without being set to candidate), tracking->scanning (the empty
\* update reported isTracking = false), scanning->candidate (failed match
\* with a promising cluster) and candidate->scanning (failed match without
\* one, or fewer than 5 candidates).  Outside frames, stop sets idle, reset
\* sets scanning, and the only other change is to scanning, when a start
\* request completes.
C1_Edges ==
  /\ [](detectionState \in {"idle", "scanning", "candidate", "locked", "tracking"})
  /\ [][IF lastOp' = "frame"
        THEN LET chain == <<detectionState>> \o frame'.trace
                 Step(i) == <<chain[i], chain[i + 1]>>
             IN /\ detectionState' = chain[Len(chain)]
                /\ \A i \in 1..(Len(chain) - 1) :
                     chain[i] # chain[i + 1] =>
                       \/ /\ Step(i) \in {<<"scanning", "locked">>,
                                          <<"candidate", "locked">>,
                                          <<"locked", "tracking">>}
                          /\ frame'.kind = "matched"
                       \/ /\ Step(i) = <<"tracking", "scanning">>
                          /\ frame'.kind = "lost"
                          /\ ~trackResult'.isTracking
                       \/ /\ Step(i) = <<"scanning", "candidate">>
                          /\ frame'.kind = "nomatch"
                       \/ /\ Step(i) = <<"candidate", "scanning">>
                          /\ frame'.kind \in {"nomatch", "few"}
        ELSE IF lastOp' = "stop" THEN detectionState' = "idle"
        ELSE IF lastOp' = "reset" THEN detectionState' = "scanning"
        ELSE detectionState' \in {detectionState, "scanning"}]_vars

C1_Witness ==
  /\ lastOp = "frame"
  /\ frame.from = "scanning"
  /\ frame.trace = <<"locked", "tracking">>
  /\ detectionState = "tracking"

\* C2 as stated: a frame whose full match succeeds resets the tracker, then
\* updates it with exactly the points the matcher returned, and assigns locked
\* and then tracking; locked is never the state between two steps.
C2_SeededWithMatchPoints ==
  /\ detectionState # "locked"
  /\ frame.kind = "matched" =>
       /\ frame.calls = <<"reset", "update">>
       /\ lastDets = frame.matchPoints
       /\ frame.trace = <<"locked", "tracking">>
       /\ detectionState = "tracking"

\* C2 amended: a frame whose full match succeeds resets the tracker and then
\* updates it with the matched correspondences after sub-pixel refinement (the
\* same ids in the same order, each position moved to the centroid found
\* around it), so that the tracker ends as a newly constructed one given that
\* one update; it assigns locked and then tracking, and locked is never the
\* state between two steps.
C2_SeededWithRefinedMatch ==
  /\ detectionState # "locked"
  /\ frame.kind = "matched" =>
       /\ frame.calls = <<"reset", "update">>
       /\ Len(lastDets) = Len(frame.matchPoints)
       /\ \A i \in 1..Len(lastDets) :
            /\ lastDets[i].id = frame.matchPoints[i].id
            /\ lastDets[i].x = frame.matchPoints[i].x + frame.refineDx
            /\ lastDets[i].y = frame.matchPoints[i].y
       /\ tracker = TrackerUpdate(AppTracker, lastDets).t
       /\ trackResult = TrackerUpdate(AppTracker, lastDets).ret
       /\ \A i \in 1..Len(trackResult.tracked) :
            /\ trackResult.tracked[i].detected
            /\ trackResult.tracked[i].x = lastDets[i].x
            /\ trackResult.tracked[i].y = lastDets[i].y
       /\ frame.trace = <<"locked", "tracking">>
       /\ detectionState = "tracking"

C2_Witness ==
  /\ frame.kind = "matched"
  /\ frame.from = "candidate"
  /\ frame.refineDx # 0
  /\ emptyRun = 0
  /\ poseCount > 0

\* C3 as stated: while tracking, frames that fail to re-acquire bring the state
\* to scanning within finitely many frames (2 * maxLostFrames + 1 of them at
\* most), and the state goes from tracking to scanning only in a frame whose
\* empty update reported isTracking = false.
C3_LossOnlyByEmptyUpdate ==
  /\ [](detectionState = "tracking" => emptyRun \in 0..(2 * AppMaxLostFrames))
  /\ [][(detectionState = "tracking" /\ detectionState' = "scanning") =>
          /\ lastOp' = "frame"
          /\ frame'.kind = "lost"
          /\ lastDets' = << >>
          /\ ~trackResult'.isTracking]_vars

\* C3 amended: while tracking, every frame that runs detection and fails to
\* re-acquire gives the tracker an empty update and moves to scanning exactly
\* when that update reported isTracking = false, which happens on the frame
\* 2 * maxLostFrames + 1 of such a run at the latest; apart from such a frame,
\* the state goes from tracking to scanning only by the reset button or by a
\* start request that completes while tracking.
C3_LossByEmptyUpdateOrCommand ==
  /\ [](detectionState = "tracking" => emptyRun \in 0..(2 * AppMaxLostFrames))
  /\ [][/\ (detectionState = "tracking" /\ detectionState' = "scanning") =>
             \/ lastOp' \in {"reset", "other"}
             \/ /\ lastOp' = "frame"
                /\ frame'.kind = "lost"
                /\ lastDets' = << >>
                /\ ~trackResult'.isTracking
        /\ (lastOp' = "frame" /\ frame'.kind = "lost") =>
             /\ frame'.from = "tracking"
             /\ lastDets' = << >>
             /\ detectionState' =
                  IF trackResult'.isTracking THEN "tracking" ELSE "scanning"]_vars

C3_Witness ==
  /\ lastOp = "frame"
  /\ frame.kind = "lost"
  /\ frame.from = "tracking"
  /\ detectionState = "scanning"
  /\ emptyRun = 2 * AppMaxLostFrames + 1

\* ------------------------------------------------------------------------
\* Properties of re-acquisition, pose publication and the commands
\* (checked under Spec)
\* ------------------------------------------------------------------------

\* C11 as stated: on a frame that runs detection in the tracking state, the
\* candidates matched to the predictions, however many, are the observations
\* given to the tracker's update of that frame (the same ids in the same
\* order, at their refined positions).
C11_MatchedAreUpdateArgs ==
  (lastOp = "frame" /\ frame.from = "tracking" /\ frame.kind # "nofilter") =>
     /\ Len(lastDets) = Len(frame.matched)
     /\ \A i \in 1..Len(lastDets) :
          /\ lastDets[i].id = frame.matched[i].id
          /\ lastDets[i].x = frame.matched[i].x + frame.refineDx
          /\ lastDets[i].y = frame.matched[i].y

\* C11 amended: the state is tracking only while the tracker reports
\* isTracking.  A frame that runs detection in the tracking state reads the
\* predictions and matches candidates to them; when all five predictions
\* found a candidate, the refined matches (the predictions' ids in their
\* order) are the observations of the one update of that frame, every
\* feature is returned as detected and tracking continues; when fewer than
\* five matched, the matches are discarded and the one update of the frame
\* is given the empty list, so that every feature is treated as absent.
C11_AllOrNothingUpdate ==
  /\ detectionState = "tracking" => tracker.isTracking
  /\ (lastOp = "frame" /\ frame.from = "tracking" /\ frame.kind # "nofilter") =>
       /\ frame.calls = <<"getPredictions", "update">>
       /\ Len(frame.matched) <= Len(predictions)
       /\ \E f \in [1..Len(frame.matched) -> 1..Len(predictions)] :
            /\ \A i \in 1..Len(frame.matched) :
                 frame.matched[i].id = predictions[f[i]].id
            /\ \A i, j \in 1..Len(frame.matched) : i < j => f[i] < f[j]
       /\ IF Len(frame.matched) = 5
          THEN /\ frame.kind = "tracked"
               /\ Len(lastDets) = 5
               /\ \A i \in 1..5 :
                    /\ lastDets[i].id = frame.matched[i].id
                    /\ lastDets[i].x = frame.matched[i].x + frame.refineDx
                    /\ lastDets[i].y = frame.matched[i].y
               /\ \A i \in 1..Len(trackResult.tracked) :
                    trackResult.tracked[i].detected
               /\ detectionState = "tracking"
          ELSE /\ frame.kind = "lost"
               /\ lastDets = << >>
               /\ \A i \in 1..Len(trackResult.tracked) :
                    ~trackResult.tracked[i].detected

C11_Witness ==
  /\ lastOp = "frame"
  /\ frame.from = "tracking"
  /\ frame.kind = "lost"
  /\ Len(frame.matched) = 4
  /\ Len(predictions) = 5
  /\ detectionState = "tracking"

\* C12: the published pose (lastPose, with poseStability) is replaced only
\* by a frame in which the pose solver was called with at least 4
\* correspondences and returned success with reprojError below 30; every
\* other frame leaves it unchanged, and a frame whose solve failed or was
\* rejected ends in the tracking state like one whose solve was accepted.
\* (Outside frames only the reset button touches the pose: it clears it.)
C12_PosePublication ==
  [][LET accepted == /\ lastOp' = "frame"
                     /\ frame'.correspondences >= 4
                     /\ frame'.solve.success
                     /\ frame'.solve.reprojError < ReprojThreshold
     IN /\ (lastPose' # lastPose \/ poseStability' # poseStability) =>
             \/ accepted
             \/ lastOp' = "reset" /\ lastPose' = NullPose /\ poseStability' = 0
        /\ accepted =>
             /\ lastPose' = [has |-> TRUE, reprojError |-> frame'.solve.reprojError]
             /\ poseStability' = Round(poseStability * 800, One)
                   + Round(Round(One * trackResult'.stability.num,
                                 trackResult'.stability.den) * 200, One)
        /\ (lastOp' = "frame" /\ ~accepted) =>
             /\ lastPose' = lastPose
             /\ poseStability' = poseStability
        /\ (lastOp' = "frame" /\ frame'.correspondences > 0) =>
             /\ frame'.kind \in {"matched", "tracked"}
             /\ detectionState' = "tracking"
             /\ tracker'.isTracking]_vars

C12_Witness ==
  /\ lastOp = "frame"
  /\ frame.kind = "tracked"
  /\ frame.correspondences = 5
  /\ frame.solve.success
  /\ frame.solve.reprojError >= ReprojThreshold
  /\ lastPose.has
  /\ lastPose.reprojError < ReprojThreshold
  /\ detectionState = "tracking"

\* C13: stopping the capture, or pressing reset, in any state discards all
\* tracker state and all pose state (lastPose and poseStability) in that
\* step and leaves the detection state idle (stop) or scanning (reset).
C13_StopAndResetDiscard ==
  [][lastOp' \in {"stop", "reset"} =>
       /\ tracker' = AppTracker
       /\ lastPose' = NullPose
       /\ poseStability' = 0
       /\ detectionState' = IF lastOp' = "stop" THEN "idle" ELSE "scanning"]_vars

\* C14: whatever the interleaving of start requests, stops, resets and frame
\* callbacks, at most one frame callback is outstanding.
C14_OneCallbackOutstanding == pendingFrames <= 1

\* C15: the detection state is idle only while the capture is not running,
\* and from a stop until the user next requests a start the capture is not
\* running and no step runs detection, schedules a frame callback or
\* changes the detection state (the reset and stop buttons apart).
C15_IdleUntilStarted ==
  /\ [](detectionState = "idle" => ~running)
  /\ [](stopped => ~running)
  /\ [][(stopped /\ stopped') =>
          /\ lastOp' # "frame"
          /\ pendingFrames' <= pendingFrames
          /\ (detectionState' # detectionState => lastOp' \in {"reset", "stop"})]_vars

\* C16: a frame callback that finds the capture running ends, whatever its
\* outcome (nothing from the filter, too few candidates, failed match,
\* failed or rejected solve, tracking loss), by scheduling the next one, so
\* that a callback is outstanding whenever the capture is running.
C16_FrameSchedulesNext ==
  /\ [](running => pendingFrames >= 1)
  /\ [][lastOp' = "frame" =>
          /\ running /\ running'
          /\ frame'.kind \in {"nofilter", "few", "nomatch", "matched",
                               "tracked", "lost"}
          /\ pendingFrames' = pendingFrames
          /\ pendingFrames' >= 1
          /\ ~hasRVFC => animFrameId' = "live"]_vars

C16_Witness ==
  /\ lastOp = "frame"
  /\ frame.kind = "lost"
  /\ detectionState = "scanning"
  /\ running
  /\ pendingFrames = 1

\* ------------------------------------------------------------------------
\* The components on their own: GeometryMatcher (five-LED revision),
\* PnPSolver.solve and BlobDetector._labelComponents
\* ------------------------------------------------------------------------

\* 1.0 in the image coordinates the matcher is given here, so that 0.001, the
\* smallest width, height and side it accepts, is GeoOne \div 1000
GeoOne == 20000

Abs(a) == IF a < 0 THEN -a ELSE a

\* a / b rounded to the nearest integer (a >= 0, b > 0)
Quot(a, b) == (a \div b) + (IF 2 * (a % b) >= b THEN 1 ELSE 0)

RECURSIVE SqrtBetween(_, _, _)
SqrtBetween(n, lo, hi) ==
  IF lo >= hi THEN lo
  ELSE LET mid == (lo + hi + 1) \div 2
           up == mid * mid <= n
       IN SqrtBetween(n, IF up THEN mid ELSE lo, IF up THEN hi ELSE mid - 1)

\* Math.sqrt(n), to the nearest integer
Sqrt(n) ==
  LET r == SqrtBetween(n, 0, 46340)
  IN IF n - r * r > r THEN r + 1 ELSE r

\* Math.hypot(a.x - b.x, a.y - b.y)
Hypot(a, b) == Sqrt((a.x - b.x) * (a.x - b.x) + (a.y - b.y) * (a.y - b.y))

\* LED_GEOMETRY.rectWidth and rectHeight, in tenths of a millimetre;
\* expectedAspectRatio is RectWidth / RectHeight
RectWidth == 673
RectHeight == 436

\* the presets of _updateTolerances (tolerances in hundredths)
Presets ==
  [low    |-> [aspectRatioTol |-> 25, centerTol |-> 30, regularityTol |-> 20,
               maxCombinations |-> 200],
   medium |-> [aspectRatioTol |-> 40, centerTol |-> 40, regularityTol |-> 35,
               maxCombinations |-> 500],
   high   |-> [aspectRatioTol |-> 60, centerTol |-> 50, regularityTol |-> 50,
               maxCombinations |-> 1000]]

\* a call that returned null
Null == [kind |-> "null"]

\* the standard deviation of four sides over their mean, in thousandths:
\*   sqrt(sum (d - avg)^2 / 4) / avg = sqrt(sum (4d - sum)^2) / (2 * sum)
SideSpread(a, b, c, d, sum) ==
  IF sum = 0 THEN 0
  ELSE Quot(Sqrt((4 * a - sum) * (4 * a - sum) + (4 * b - sum) * (4 * b - sum)
                   + (4 * c - sum) * (4 * c - sum)
                   + (4 * d - sum) * (4 * d - sum)) * 500, sum)

\* the four sides divided by k
SideSpreadBy(d12, d23, d34, d41, k) ==
  SideSpread(Quot(d12, k), Quot(d23, k), Quot(d34, k), Quot(d41, k),
             Quot(d12, k) + Quot(d23, k) + Quot(d34, k) + Quot(d41, k))

\* sideCV of _verifyGeometry, in thousandths (long sides are scaled down
\* first, to keep the squares in range)
SideCV(d12, d23, d34, d41) ==
  SideSpreadBy(d12, d23, d34, d41, ((d12 + d23 + d34 + d41) \div 8000) + 1)

\* quadrant ids with left and right exchanged
QuadrantIdMirrored(p, sumX, sumY) ==
  IF 4 * p.x <= sumX /\ 4 * p.y < sumY THEN 1
  ELSE IF 4 * p.x <= sumX /\ 4 * p.y >= sumY THEN 2
  ELSE IF 4 * p.x > sumX /\ 4 * p.y >= sumY THEN 3
  ELSE 4

\* the quadrant id _verifyGeometry gives a bottom point (sumX, sumY: four
\* times the centroid of the bottom points)
QuadrantId(p, sumX, sumY) ==
  IF 4 * p.x > sumX /\ 4 * p.y < sumY THEN 1
  ELSE IF 4 * p.x > sumX /\ 4 * p.y >= sumY THEN 2
  ELSE IF 4 * p.x <= sumX /\ 4 * p.y >= sumY THEN 3
  ELSE 4

\* the end of _verifyGeometry: the score and the metrics of a pattern that
\* passed every test (in thousandths)
ScoredPattern(p1, p2, p3, p4, led5, width, height, ratioError, horizontalOffset, sideCV) ==
  [kind |-> "object", success |-> TRUE,
   points |-> << [id |-> 1, x |-> p1.x, y |-> p1.y],
                 [id |-> 2, x |-> p2.x, y |-> p2.y],
                 [id |-> 3, x |-> p3.x, y |-> p3.y],
                 [id |-> 4, x |-> p4.x, y |-> p4.y],
                 [id |-> 5, x |-> led5.x, y |-> led5.y] >>,
   score |-> 2 * ratioError + Quot(3 * horizontalOffset, 2)
               + Quot(3 * sideCV, 2),
   metrics |-> [ratioError |-> ratioError,
                horizontalOffset |-> horizontalOffset,
                sideCV |-> sideCV, width |-> width, height |-> height]]

\* the tests of _verifyGeometry on the measured pattern: ratioDiff is
\* |width / height - expectedAspectRatio| times RectHeight * height, off4 is
\* four times |led5.x - rectCenterX|
VerifyMeasures(p1, p2, p3, p4, led5, tol, width, height, ratioDiff, off4, d12, d23, d34, d41, sideCV) ==
  IF width < GeoOne \div 1000 \/ height < GeoOne \div 1000 THEN Null
  ELSE IF ratioDiff * 100 > tol.aspectRatioTol * RectWidth * height THEN Null
  ELSE IF off4 * 100 > 4 * width * tol.centerTol THEN Null
  ELSE IF d12 + d23 + d34 + d41 < 4 * (GeoOne \div 1000) THEN Null
  ELSE IF sideCV > tol.regularityTol * 10 THEN Null
  ELSE ScoredPattern(p1, p2, p3, p4, led5, width, height,
                     IF ratioDiff < 2000000
                     THEN Quot(ratioDiff * 1000, RectWidth * height)
                     ELSE Quot(ratioDiff, Quot(RectWidth * height, 1000)),
                     Quot(off4 * 250, width), sideCV)

\* the sides of the rectangle p1..p4 that _verifyGeometry measures
VerifySides(p1, p2, p3, p4, led5, tol, d12, d23, d34, d41) ==
  VerifyMeasures(p1, p2, p3, p4, led5, tol,
                 Abs(p1.x - p3.x), Abs(p1.y - p2.y),
                 Abs(RectHeight * Abs(p1.x - p3.x)
                       - RectWidth * Abs(p1.y - p2.y)),
                 Abs(4 * led5.x - (p1.x + p2.x + p3.x + p4.x)),
                 d12, d23, d34, d41, SideCV(d12, d23, d34, d41))

\* _verifyGeometry once the four bottom points are identified
VerifyPattern(p1, p2, p3, p4, led5, tol) ==
  VerifySides(p1, p2, p3, p4, led5, tol,
              Hypot(p1, p2), Hypot(p2, p3), Hypot(p3, p4), Hypot(p4, p1))

\* _verifyGeometry once the quadrant ids idOf of the bottom points are known
VerifyQuadrants(points, bottom, led5, idOf, tol) ==
  IF Cardinality({idOf[i] : i \in bottom}) # 4 THEN Null
  ELSE VerifyPattern(points[CHOOSE i \in bottom : idOf[i] = 1],
                     points[CHOOSE i \in bottom : idOf[i] = 2],
                     points[CHOOSE i \in bottom : idOf[i] = 3],
                     points[CHOOSE i \in bottom : idOf[i] = 4], led5, tol)

\* _verifyGeometry once the topmost point is found (sumX, sumY: four times
\* the centroid of the bottom points)
VerifyBottom(points, topIdx, sumX, sumY, tol) ==
  IF 4 * points[topIdx].y >= sumY THEN Null
  ELSE VerifyQuadrants(points, {i \in 1..5 : i # topIdx}, points[topIdx],
                       [i \in {j \in 1..5 : j # topIdx} |->
                          QuadrantId(points[i], sumX, sumY)], tol)

\* _verifyGeometry with the index of the topmost point (the first among
\* equally high ones)
VerifyTop(points, topIdx, tol) ==
  VerifyBottom(points, topIdx,
               points[1].x + points[2].x + points[3].x + points[4].x
                 + points[5].x - points[topIdx].x,
               points[1].y + points[2].y + points[3].y + points[4].y
                 + points[5].y - points[topIdx].y, tol)

\* _verifyGeometry(points) under the tolerances tol: Null, or the scored
\* result
VerifyGeometry(points, tol) ==
  VerifyTop(points,
            CHOOSE i \in 1..5 :
              \A j \in 1..5 : \/ points[i].y < points[j].y
                              \/ (points[i].y = points[j].y /\ i <= j),
            tol)

\* the 5-point combinations of n points in the order the five nested loops
\* of _searchCombinations visit them: A before B when the smallest index
\* that only one of them holds is in A
Combinations(n) == {c \in SUBSET (1..n) : Cardinality(c) = 5}

Before(A, B) ==
  A # B /\ LET diff == (A \ B) \cup (B \ A)
               first == CHOOSE i \in diff : \A j \in diff : i <= j
           IN first \in A

\* the i-th smallest element of a set of numbers
Nth(S, i) == CHOOSE e \in S : Cardinality({f \in S : f < e}) = i - 1

\* the points of an index set, in ascending index order
PointsOf(points, c) == [i \in 1..Cardinality(c) |-> points[Nth(c, i)]]

\* the best of the verified results: the lowest score, the earliest
\* combination among equally scored ones
BestOf(results, valid) ==
  CHOOSE c \in valid :
    \A b \in valid \ {c} :
      \/ results[c].score < results[b].score
      \/ (results[c].score = results[b].score /\ Before(c, b))

\* what _searchCombinations returns for the best result
SearchResult(result, count) ==
  [kind |-> "object", success |-> TRUE,
   points |-> result.points, score |-> result.score,
   metrics |-> result.metrics, combinationsTested |-> count]

\* _searchCombinations over the tested combinations and their results
SearchTested(tested, results) ==
  IF \A c \in tested : results[c] = Null THEN Null
  ELSE SearchResult(results[BestOf(results,
                                   {c \in tested : results[c] # Null})],
                    Cardinality(tested))

\* the combinations _searchCombinations tests: the first maxCombinations
FirstCombinations(all, max) ==
  {c \in all : Cardinality({b \in all : Before(b, c)}) + 1 <= max}

\* the results of _verifyGeometry on the tested combinations
ResultsOf(points, tested, tol) ==
  [c \in tested |-> VerifyGeometry(PointsOf(points, c), tol)]

\* _searchCombinations(points): the best scored combination among the first
\* maxCombinations, with the number of combinations tested; Null if none
\* verifies
SearchCombinations(points, tol) ==
  SearchTested(FirstCombinations(Combinations(Len(points)), tol.maxCombinations),
               ResultsOf(points,
                         FirstCombinations(Combinations(Len(points)),
                                           tol.maxCombinations), tol))

\* the squared distance of two candidates as match() measures it, with
\* dx = (a.x - b.x) * imageAspect and imageAspect = aspect.w / aspect.h
ClusterDist2(a, b, aspect) ==
  LET dx == Quot(Abs(a.x - b.x) * aspect.w, aspect.h)
      dy == a.y - b.y
  IN dx * dx + dy * dy

\* the cluster _findClusters builds around point i: i and its 8 nearest
\* neighbours (the earlier index first among equally distant ones)
ClusterAround(points, aspect, i) ==
  LET n == Len(points)
      D(j) == ClusterDist2(points[i], points[j], aspect)
      others == (1..n) \ {i}
      Pos(j) == Cardinality({k \in others : D(k) < D(j) \/ (D(k) = D(j) /\ k < j)})
  IN {i} \cup {j \in others : Pos(j) < 8}

\* _findClusters(points, dists, n): no cluster for 7 points or fewer, else
\* the distinct clusters in the order of the first point that yields them
FindClusters(points, aspect) ==
  LET n == Len(points)
      C(i) == ClusterAround(points, aspect, i)
      firsts == {i \in 1..n : Cardinality(C(i)) >= 5
                                /\ \A k \in 1..(i - 1) : C(k) # C(i)}
  IN IF n <= 7 THEN << >>
     ELSE [i \in 1..Cardinality(firsts) |-> C(Nth(firsts, i))]

\* the loop of match() over the search sets from set k on, with the best
\* match and the number of combinations tested so far
RECURSIVE MatchOver(_, _, _, _, _, _)
MatchOver(top, searchSets, k, best, count, tol) ==
  IF k > Len(searchSets) THEN [best |-> best, count |-> count]
  ELSE LET skip == Cardinality(searchSets[k]) < 5
           result == IF skip THEN Null
                     ELSE SearchCombinations(PointsOf(top, searchSets[k]), tol)
           better == result # Null /\ (best = Null \/ result.score < best.score)
           best1 == IF better THEN result ELSE best
           count1 == count + (IF result # Null THEN result.combinationsTested ELSE 0)
       IN IF ~skip /\ count1 > tol.maxCombinations
          THEN [best |-> best1, count |-> count1]
          ELSE MatchOver(top, searchSets, k + 1, best1, count1, tol)

\* a match() that reports failure as an object
MatchObject(candidates, aspect, tol) ==
  [kind |-> "object", success |-> FALSE, error |-> "Need at least 5 candidates"]

\* GeometryMatcher.match(candidates, imageAspect) under the tolerances tol
Match(candidates, aspect, tol) ==
  IF Len(candidates) < 5 THEN Null
  ELSE LET n == IF Len(candidates) < 20 THEN Len(candidates) ELSE 20
           top == SubSeq(candidates, 1, n)
           clusters == FindClusters(top, aspect)
           searchSets == IF Len(clusters) > 0 THEN clusters ELSE << 1..n >>
           done == MatchOver(top, searchSets, 1, Null, 0, tol)
       IN IF done.best = Null THEN Null
          ELSE [kind |-> "object", success |-> TRUE,
                points |-> done.best.points, score |-> done.best.score,
                metrics |-> done.best.metrics,
                combinationsTested |-> done.count,
                totalCandidates |-> Len(candidates)]

\* a solve() that answers insufficient input with null
PnPSolveNull(objectPoints, imagePoints, rest) == Null

\* PnPSolver.solve(objectPoints, imagePoints); rest is what the numerical
\* steps yield on sufficient input (dlt: _dltEstimate returned an estimate;
\* reprojError: the error of the refined pose)
PnPSolve(objectPoints, imagePoints, rest) ==
  IF Len(objectPoints) < 4 \/ Len(objectPoints) # Len(imagePoints)
  THEN [kind |-> "object", success |-> FALSE,
        error |-> "Need at least 4 point correspondences"]
  ELSE IF ~rest.dlt
  THEN [kind |-> "object", success |-> FALSE, error |-> "DLT failed"]
  ELSE [kind |-> "object", success |-> TRUE, reprojError |-> rest.reprojError]

\* new UnionFind(n)
NewUnionFind(n) == [parent |-> [i \in 0..(n - 1) |-> i],
                    rank |-> [i \in 0..(n - 1) |-> 0]]

\* first loop of find(x): the root above x
RECURSIVE FindRoot(_, _)
FindRoot(parent, x) ==
  IF parent[x] = x THEN x ELSE FindRoot(parent, parent[x])

\* the nodes from x up to, and without, the root
RECURSIVE PathTo(_, _)
PathTo(parent, x) ==
  IF parent[x] = x THEN {} ELSE {x} \cup PathTo(parent, parent[x])

\* uf.find(x): the root, and the structure after every node on the path has
\* been attached to the root
Find(uf, x) ==
  LET root == FindRoot(uf.parent, x)
      path == PathTo(uf.parent, x)
  IN [root |-> root,
      uf |-> [uf EXCEPT !.parent = [i \in DOMAIN uf.parent |->
                                      IF i \in path THEN root ELSE uf.parent[i]]]]

\* a union that joins nothing
UnionNothing(uf, a, b) == uf

\* uf.union(a, b)
Union(uf, a, b) ==
  LET fa == Find(uf, a)
      fb == Find(fa.uf, b)
      ra == fa.root
      rb == fb.root
      u  == fb.uf
  IN IF ra = rb THEN u
     ELSE IF u.rank[ra] < u.rank[rb] THEN [u EXCEPT !.parent[ra] = rb]
     ELSE IF u.rank[ra] > u.rank[rb] THEN [u EXCEPT !.parent[rb] = ra]
     ELSE [u EXCEPT !.parent[rb] = ra, !.rank[ra] = u.rank[ra] + 1]

\* the first pass of _labelComponents from pixel idx on
RECURSIVE LabelFrom(_, _, _, _, _, _, _)
LabelFrom(mask, width, height, idx, labels, uf, nextLabel) ==
  IF idx >= width * height
  THEN [labels |-> labels, uf |-> uf, nextLabel |-> nextLabel]
  ELSE LET x == idx % width
           y == idx \div width
           leftIdx == IF x > 0 THEN idx - 1 ELSE -1
           topIdx == IF y > 0 THEN idx - width ELSE -1
           leftLabel == IF leftIdx >= 0 /\ mask[leftIdx] # 0
                        THEN labels[leftIdx] ELSE -1
           topLabel == IF topIdx >= 0 /\ mask[topIdx] # 0
                       THEN labels[topIdx] ELSE -1
           \* the pixel's label, the union-find and nextLabel after the pixel
           after ==
             IF mask[idx] = 0
             THEN [label |-> -1, uf |-> uf, nextLabel |-> nextLabel]
             ELSE IF leftLabel = -1 /\ topLabel = -1
             THEN [label |-> nextLabel, uf |-> uf, nextLabel |-> nextLabel + 1]
             ELSE IF leftLabel # -1 /\ topLabel = -1
             THEN [label |-> leftLabel, uf |-> uf, nextLabel |-> nextLabel]
             ELSE IF leftLabel = -1 /\ topLabel # -1
             THEN [label |-> topLabel, uf |-> uf, nextLabel |-> nextLabel]
             ELSE [label |-> leftLabel, uf |-> Union(uf, leftLabel, topLabel),
                   nextLabel |-> nextLabel]
       IN LabelFrom(mask, width, height, idx + 1,
                    [labels EXCEPT ![idx] = after.label], after.uf,
                    after.nextLabel)

\* _labelComponents(mask, width, height)
LabelComponents(mask, width, height) ==
  LabelFrom(mask, width, height, 0,
            [i \in 0..(width * height - 1) |-> -1],
            NewUnionFind(width * height), 0)

\* the loop of _collectStats from pixel idx on: the root of every labelled
\* pixel (root, -1 for background) and the area counted under each root
RECURSIVE StatsFrom(_, _, _, _, _, _)
StatsFrom(labels, n, idx, uf, root, area) ==
  IF idx >= n THEN [root |-> root, area |-> area]
  ELSE LET skip == labels[idx] = -1
           f == IF skip THEN [root |-> -1, uf |-> uf] ELSE Find(uf, labels[idx])
       IN StatsFrom(labels, n, idx + 1, f.uf,
                    [root EXCEPT ![idx] = f.root],
                    IF skip THEN area
                    ELSE [area EXCEPT ![f.root] = area[f.root] + 1])

\* labelling followed by its resolution in _collectStats, as detect() runs them
ResolvedLabels(mask, width, height) ==
  LET l == LabelComponents(mask, width, height)
      n == width * height
      st == StatsFrom(l.labels, n, 0, l.uf,
                      [i \in 0..(n - 1) |-> -1], [i \in 0..(n - 1) |-> 0])
  IN [kind |-> "object", labels |-> l.labels, nextLabel |-> l.nextLabel,
      root |-> st.root, area |-> st.area]

\* the fifth points tried around the rectangle reach GridSpan steps from its
\* centre in each direction
GridSpan == 8

\* width and height of the masks labelled
MaskWidth == 3
MaskHeight == 2

\* LED_GEOMETRY.led5VerticalOffset, in tenths of a millimetre (63.09 mm)
Led5VerticalOffset == 631

\* the centre of the rectangle in the image, which shows the device from the
\* front at two coordinate units per tenth of a millimetre
PatternCentre == [x |-> 2673, y |-> 1936]

\* the four corner LEDs in the image: right-top, right-bottom, left-bottom,
\* left-top (y grows downwards)
Rectangle ==
  << [x |-> PatternCentre.x + RectWidth, y |-> PatternCentre.y - RectHeight],
     [x |-> PatternCentre.x + RectWidth, y |-> PatternCentre.y + RectHeight],
     [x |-> PatternCentre.x - RectWidth, y |-> PatternCentre.y + RectHeight],
     [x |-> PatternCentre.x - RectWidth, y |-> PatternCentre.y - RectHeight] >>

\* the rectangle as the detector may order it: candidates come sorted by
\* brightness, so the right-top or the left-top corner may come first
RectangleOrders ==
  {Rectangle, << Rectangle[4], Rectangle[1], Rectangle[2], Rectangle[3] >>}

\* the protruding LED, above the centre of the rectangle
TopCentre == [x |-> PatternCentre.x, y |-> PatternCentre.y - 2 * Led5VerticalOffset]

\* the exact pattern, as the detector may order it
ExactPatterns == {Rectangle \o <<TopCentre>>, <<TopCentre>> \o Rectangle}

\* fifth points on a grid around the centre of the rectangle
FifthPoints ==
  {[x |-> PatternCentre.x + 100 * i, y |-> PatternCentre.y + 100 * j] :
     i \in -GridSpan..GridSpan, j \in -GridSpan..GridSpan}

\* candidates that belong to no pattern
Clutter ==
  << [x |-> 100, y |-> 5000], [x |-> 6000, y |-> 700], [x |-> 6000, y |-> 6100],
     [x |-> 9000, y |-> 9100], [x |-> 12000, y |-> 700] >>

\* a pattern every preset accepts: a 1346 x 1000 rectangle centred at
\* (cx, 3000) with its fifth point 1800 above the centre and topDx to the
\* right of it
PatternAround(cx, topDx) ==
  << [x |-> cx + RectWidth, y |-> 2500], [x |-> cx + RectWidth, y |-> 3500],
     [x |-> cx - RectWidth, y |-> 3500], [x |-> cx - RectWidth, y |-> 2500],
     [x |-> cx + topDx, y |-> 1200] >>

\* two patterns side by side, the brighter one with its fifth point off
\* centre
TwoPatterns == PatternAround(3000, 300) \o PatternAround(12000, 0)

\* candidate lists given to match(): too few candidates, the exact pattern,
\* the rectangle with a fifth point, and the pattern among clutter
CandidateLists ==
  {SubSeq(Rectangle \o <<TopCentre>>, 1, k) : k \in 0..4}
    \cup ExactPatterns
    \cup {r \o <<p>> : r \in RectangleOrders, p \in FifthPoints}
    \cup {TwoPatterns}
    \cup {SubSeq(Clutter, 1, 1) \o Rectangle \o <<TopCentre>>,
          SubSeq(Clutter, 1, 1) \o Rectangle \o <<TopCentre>> \o SubSeq(Clutter, 2, 5)}

\* imageAspect: the default of match(), 16 / 9
ImageAspect == [w |-> 16, h |-> 9]

\* LED_GEOMETRY.points3D, in hundredths of a millimetre
Points3D ==
  << [x |-> 3365, y |-> 2180, z |-> 0], [x |-> 3365, y |-> -2180, z |-> 0],
     [x |-> -3365, y |-> -2180, z |-> 0], [x |-> -3365, y |-> 2180, z |-> 0],
     [x |-> 0, y |-> 6309, z |-> 2010] >>

\* what the numerical steps of solve() can yield
SolveRests ==
  {[dlt |-> FALSE, reprojError |-> 0], [dlt |-> TRUE, reprojError |-> 5],
   [dlt |-> TRUE, reprojError |-> 30]}

\* the calls made to the components
MatchCalls ==
  [fn : {"match"}, sensitivity : {"low", "medium", "high"},
   candidates : CandidateLists]

SolveCalls ==
  {[fn |-> "solve", objectPoints |-> SubSeq(Points3D, 1, n),
    imagePoints |-> SubSeq(Rectangle \o <<TopCentre>>, 1, m), rest |-> r] :
     n \in 0..5, m \in 0..5, r \in SolveRests}

LabelCalls ==
  [fn : {"label"}, width : {MaskWidth}, height : {MaskHeight},
   mask : [0..(MaskWidth * MaskHeight - 1) -> {0, 255}]]

\* most blobs and most predictions given to matchBlobsToPredictions
MaxBlobs == 3
MaxPreds == 2

\* where the blobs and the predictions of a re-acquisition lie: on a line,
\* closer together and further apart than the search radius
BlobPoints == {[x |-> 500 + d, y |-> 500] : d \in {0, 30, 60, 120}}
PredPoints == {[x |-> 500 + d, y |-> 500] : d \in {0, 40, 90}}

\* blob lists of a frame, in the detector's order
BlobLists == UNION {[1..n -> BlobPoints] : n \in 0..MaxBlobs}

\* tracker.getPredictions(): one prediction per tracked id, ids ascending
PredictionLists ==
  UNION {{[i \in 1..n |-> [id |-> i, x |-> pos[i].x, y |-> pos[i].y]] :
            pos \in [1..n -> PredPoints]} : n \in 0..MaxPreds}

MatchBlobsCalls ==
  [fn : {"matchBlobs"}, blobs : BlobLists, predictions : PredictionLists]

\* stripSpacingTolerance after setSensitivity(level), in hundredths
StripSpacingTolerance ==
  [strict |-> 25, normal |-> 40, relaxed |-> 50]

\* [...stripBlobs].sort((a, b) => a.y - b.y): ascending y, strips of equal y
\* in their given order
SortedStrips(stripBlobs) ==
  [k \in 1..Len(stripBlobs) |->
     stripBlobs[CHOOSE i \in 1..Len(stripBlobs) :
                  Cardinality({j \in 1..Len(stripBlobs) :
                                 \/ stripBlobs[j].y < stripBlobs[i].y
                                 \/ (stripBlobs[j].y = stripBlobs[i].y /\ j < i)})
                    = k - 1]]

\* spacingVariation > stripSpacingTolerance for the sorted strips:
\* max |s - avg| / avg > tol, with avg = sum / count; comparing with the NaN
\* that equal positions give is false
SpacingInconsistent(sorted, tol) ==
  /\ Len(sorted) >= 2
  /\ sorted[Len(sorted)].y - sorted[1].y > 0
  /\ \E i \in 2..Len(sorted) :
       Abs((Len(sorted) - 1) * (sorted[i].y - sorted[i - 1].y)
             - (sorted[Len(sorted)].y - sorted[1].y)) * 100
         > tol * (sorted[Len(sorted)].y - sorted[1].y)

\* the ids matchStrips assigns, from top to bottom
StripIds == << "STRIP_TOP", "STRIP_MID", "STRIP_BOT" >>

\* the assignment loop of matchStrips
AssignStrips(sorted) ==
  [i \in 1..(IF Len(sorted) < 3 THEN Len(sorted) ELSE 3) |->
     [id |-> StripIds[i], x |-> sorted[i].x, y |-> sorted[i].y]]

\* a matchStrips that drops strips of inconsistent spacing
MatchStripsRejecting(stripBlobs, tol) ==
  [kind |-> "object",
   warned |-> SpacingInconsistent(SortedStrips(stripBlobs), tol),
   matched |-> IF SpacingInconsistent(SortedStrips(stripBlobs), tol)
               THEN << >> ELSE AssignStrips(SortedStrips(stripBlobs))]

\* matchStrips(stripBlobs) under the tolerance tol: the strips returned, and
\* whether console.warn reported inconsistent spacing
MatchStrips(stripBlobs, tol) ==
  [kind |-> "object",
   warned |-> SpacingInconsistent(SortedStrips(stripBlobs), tol),
   matched |-> AssignStrips(SortedStrips(stripBlobs))]

\* most strips in a frame
MaxStrips == 3

\* image heights at which strips are detected
StripYs == {200, 300, 400, 500, 700}

\* strip lists in the detector's order
StripLists ==
  UNION {{[i \in 1..n |-> [x |-> 100 * i, y |-> ys[i]]] :
            ys \in [1..n -> StripYs]} : n \in 0..MaxStrips}

MatchStripsCalls ==
  [fn : {"matchStrips"}, level : {"strict", "normal", "relaxed"},
   stripBlobs : StripLists]

\* a component is about to be called: the application and its tracker are
\* idle
CompInit ==
  /\ tracker = AppTracker
  /\ trackResult = NoResult
  /\ predictions = << >>
  /\ lastOp = "init"
  /\ lastDets = << >>
  /\ seen = {}
  /\ cleared = NoCleared
  /\ emptyRun = -1
  /\ obsCount = 0
  /\ AppIdle
  /\ hasRVFC = TRUE
  /\ \/ call \in MatchCalls
     \/ call \in SolveCalls
     \/ call \in LabelCalls
     \/ call \in MatchBlobsCalls
     \/ call \in MatchStripsCalls
  /\ ret = NoCall
  /\ DecoderIdle
  /\ DetectorIdle
  /\ RefineIdle

\* geometryMatcher.match(candidates) runs
MatchCall ==
  /\ call.fn = "match"
  /\ ret = NoCall
  /\ ret' = Match(call.candidates, ImageAspect, Presets[call.sensitivity])
  /\ UNCHANGED <<trackerVars, appVars, call, decoderVars, detectorVars,
               refineVars>>

\* pnpSolver.solve(objectPoints, imagePoints) runs
SolveCall ==
  /\ call.fn = "solve"
  /\ ret = NoCall
  /\ ret' = PnPSolve(call.objectPoints, call.imagePoints, call.rest)
  /\ UNCHANGED <<trackerVars, appVars, call, decoderVars, detectorVars,
               refineVars>>

\* _labelComponents and the resolution of its labels run
LabelCall ==
  /\ call.fn = "label"
  /\ ret = NoCall
  /\ ret' = ResolvedLabels(call.mask, call.width, call.height)
  /\ UNCHANGED <<trackerVars, appVars, call, decoderVars, detectorVars,
               refineVars>>

\* matchBlobsToPredictions(blobs, predictions) runs
MatchBlobsCall ==
  /\ call.fn = "matchBlobs"
  /\ ret = NoCall
  /\ ret' = [kind |-> "object",
             matched |-> MatchBlobsToPredictions(call.blobs, call.predictions)]
  /\ UNCHANGED <<trackerVars, appVars, call, decoderVars, detectorVars,
               refineVars>>

\* setSensitivity(level) and matchStrips(stripBlobs) run
MatchStripsCall ==
  /\ call.fn = "matchStrips"
  /\ ret = NoCall
  /\ ret' = MatchStrips(call.stripBlobs, StripSpacingTolerance[call.level])
  /\ UNCHANGED <<trackerVars, appVars, call, decoderVars, detectorVars,
               refineVars>>

CompNext ==
  MatchCall \/ SolveCall \/ LabelCall \/ MatchBlobsCall \/ MatchStripsCall

CompSpec == CompInit /\ [][CompNext]_vars

\* ------------------------------------------------------------------------
\* The packet decoder of the blinking-light page: toggleDecode, processFrame
\* and attemptDecode
\* ------------------------------------------------------------------------

\* cfg.framesPerPacket and cfg.preamble.length of the configuration form
FramesPerPacket == 4
PreambleLength == 2

\* cfg.bitsPerFrame, and the CRC and ID fields of the packet
BitsPerFrame == 1
CrcLen == 2
CrcPoly == 3
CrcInit == 0
CrcXor == 0
IdStart == 0
IdLen == 2

\* 1 << n
RECURSIVE Pow2(_)
Pow2(n) == IF n = 0 THEN 1 ELSE 2 * Pow2(n - 1)

\* the symbols a frame can yield
Symbols == 0..(Pow2(BitsPerFrame) - 1)

\* cfg.preamble: alternating symbols, starting with 1
Preamble == [i \in 1..PreambleLength |-> i % 2]

\* a ^ b
RECURSIVE BitXor(_, _)
BitXor(a, b) ==
  IF a = 0 THEN b
  ELSE IF b = 0 THEN a
  ELSE ((a + b) % 2) + 2 * BitXor(a \div 2, b \div 2)

\* bitsFromSymbol(symbol, bitsPerFrame): the low bit first
BitsFromSymbol(symbol, bitsPerFrame) ==
  [i \in 1..bitsPerFrame |-> (symbol \div Pow2(i - 1)) % 2]

\* captureSymbols.flatMap(s => bitsFromSymbol(s, bitsPerFrame))
BitsOf(symbols, bitsPerFrame) ==
  [k \in 1..(Len(symbols) * bitsPerFrame) |->
     BitsFromSymbol(symbols[((k - 1) \div bitsPerFrame) + 1],
                    bitsPerFrame)[((k - 1) % bitsPerFrame) + 1]]

\* bitsToNumber(bits): the first bit is the lowest
RECURSIVE BitsToNumber(_)
BitsToNumber(bits) ==
  IF bits = << >> THEN 0 ELSE Head(bits) + 2 * BitsToNumber(Tail(bits))

\* one round of the loop of computeCrc16
CrcStep(crc, bit, poly, width) ==
  IF (crc \div Pow2(width - 1)) % 2 = 1
  THEN BitXor(((crc * 2) % Pow2(width)) + bit, poly)
  ELSE ((crc * 2) % Pow2(width)) + bit

\* computeCrc16(bits, poly, init, xorOut, width)
RECURSIVE ComputeCrc16(_, _, _, _, _)
ComputeCrc16(bits, poly, init, xorOut, width) ==
  IF bits = << >> THEN BitXor(init, xorOut) % Pow2(width)
  ELSE ComputeCrc16(Tail(bits), poly, CrcStep(init, Head(bits), poly, width),
                    xorOut, width)

\* crcOk of attemptDecode for the bits of a packet
CrcOk(bits) ==
  IF CrcLen > 0 /\ Len(bits) > CrcLen
  THEN BitsToNumber(SubSeq(bits, Len(bits) - CrcLen + 1, Len(bits)))
         = ComputeCrc16(SubSeq(bits, 1, Len(bits) - CrcLen),
                        CrcPoly, CrcInit, CrcXor, CrcLen)
  ELSE TRUE

\* idValue of attemptDecode: bits.slice(idStart, idStart + idLen)
IdValue(bits) ==
  BitsToNumber(SubSeq(bits, IdStart + 1,
                      IF IdStart + IdLen < Len(bits) THEN IdStart + IdLen
                      ELSE Len(bits)))

\* symbolStream after push(symbol) and the shift() that keeps it no longer
\* than the preamble and a packet
Pushed(stream, symbol) ==
  IF Len(stream) + 1 > PreambleLength + FramesPerPacket
  THEN Tail(Append(stream, symbol))
  ELSE Append(stream, symbol)

\* symbolStream.slice(-cfg.preamble.length): the last symbols, all of them
\* when there are fewer
LastSlice(stream, n) ==
  IF Len(stream) <= n THEN stream
  ELSE SubSeq(stream, Len(stream) - n + 1, Len(stream))

\* slice.every((v, i) => v === cfg.preamble[i])
PreambleMatch(slice) == \A i \in 1..Len(slice) : slice[i] = Preamble[i]

\* a capture that waits for one symbol more
PacketCompleteLate(n) == ~(n < FramesPerPacket + 1)

\* captureSymbols.length < cfg.framesPerPacket is false: the packet is complete
PacketComplete(n) == ~(n < FramesPerPacket)

\* attemptDecode(symbol) while searching for the preamble
SearchPreamble(symbol) ==
  /\ symbolStream' = Pushed(symbolStream, symbol)
  /\ IF PreambleMatch(LastSlice(Pushed(symbolStream, symbol), PreambleLength))
     THEN /\ capturing' = TRUE
          /\ captureSymbols' = << >>
          /\ decodeStatus' = "Preamble matched"
          /\ decodeEvent' = "matched"
          /\ sinceStart' = 0
     ELSE /\ UNCHANGED <<capturing, captureSymbols, decodeStatus>>
          /\ decodeEvent' = "search"
          /\ sinceStart' = -1
  /\ reported' = -1

\* the end of attemptDecode(symbol) once the packet is complete: captured
\* are the symbols of the packet, bits their bits
DecodePacket(captured, bits) ==
  /\ IF Len(bits) # FramesPerPacket * BitsPerFrame
     THEN /\ captureSymbols' = captured
          /\ decodeEvent' = "length"
          /\ reported' = -1
          /\ UNCHANGED decodeStatus
     ELSE /\ captureSymbols' = << >>
          /\ IF CrcOk(bits)
             THEN /\ decodeStatus' = "ID decoded"
                  /\ decodeEvent' = "decoded"
                  /\ reported' = IdValue(bits)
             ELSE /\ decodeStatus' = "CRC failed"
                  /\ decodeEvent' = "crcfail"
                  /\ reported' = -1
  /\ capturing' = FALSE

\* attemptDecode(symbol) while capturing
CaptureSymbol(symbol) ==
  /\ symbolStream' = Pushed(symbolStream, symbol)
  /\ sinceStart' = sinceStart + 1
  /\ IF PacketComplete(Len(captureSymbols) + 1)
     THEN DecodePacket(Append(captureSymbols, symbol),
                       BitsOf(Append(captureSymbols, symbol), BitsPerFrame))
     ELSE /\ captureSymbols' = Append(captureSymbols, symbol)
          /\ decodeEvent' = "collect"
          /\ reported' = -1
          /\ UNCHANGED <<capturing, decodeStatus>>

\* attemptDecode(symbol)
AttemptDecode(symbol) ==
  IF PreambleLength = 0
  THEN /\ decodeEvent' = "none"
       /\ reported' = -1
       /\ UNCHANGED <<symbolStream, capturing, captureSymbols, decodeStatus,
                      sinceStart>>
  ELSE IF ~capturing THEN SearchPreamble(symbol)
  ELSE CaptureSymbol(symbol)

\* a frame callback of the page: processFrame(ts) with the symbol its three
\* regions show
DecoderFrame ==
  /\ endedBefore' = (endedBefore \/ decodeEvent \in {"decoded", "crcfail"})
  /\ IF decoding
     THEN \E symbol \in Symbols : AttemptDecode(symbol)
     ELSE /\ decodeEvent' = "off"
          /\ reported' = -1
          /\ UNCHANGED <<symbolStream, capturing, captureSymbols,
                         decodeStatus, sinceStart>>
  /\ UNCHANGED <<trackerVars, appVars, call, ret, decoding, detectorVars,
               refineVars>>

\* the decode button: toggleDecode()
ToggleDecode ==
  /\ decoding' = ~decoding
  /\ decodeStatus' = IF ~decoding THEN "Decoding" ELSE "Idle"
  /\ IF ~decoding
     THEN /\ symbolStream' = << >>
          /\ captureSymbols' = << >>
          /\ capturing' = FALSE
     ELSE UNCHANGED <<symbolStream, captureSymbols, capturing>>
  /\ decodeEvent' = "none"
  /\ reported' = -1
  /\ sinceStart' = IF ~decoding THEN -1 ELSE sinceStart
  /\ endedBefore' = IF ~decoding THEN FALSE
                     ELSE (endedBefore \/ decodeEvent \in {"decoded", "crcfail"})
  /\ UNCHANGED <<trackerVars, appVars, call, ret, detectorVars, refineVars>>

\* the page as loaded, with the tracking application idle
DecoderInit ==
  /\ tracker = AppTracker
  /\ trackResult = NoResult
  /\ predictions = << >>
  /\ lastOp = "init"
  /\ lastDets = << >>
  /\ seen = {}
  /\ cleared = NoCleared
  /\ emptyRun = -1
  /\ obsCount = 0
  /\ AppIdle
  /\ hasRVFC = TRUE
  /\ CompIdle

DecoderNext == DecoderFrame \/ ToggleDecode

DecoderSpec == DecoderInit /\ [][DecoderNext]_vars

\* ------------------------------------------------------------------------
\* The peak detector (src/peak-detector.js)
\*
\* Pixel values are whole; the brightness and blue difference of the frames
\* below are multiples of 10, which makes every score whole.  The blur
\* divides by 3 twice: _tempBlur is held in thirds and _smoothed in ninths,
\* so that both stay whole and every comparison of the code is exact.
\* ------------------------------------------------------------------------

MaxDetects == 3

\* Math.max and Math.min of two numbers
Max(a, b) == IF a >= b THEN a ELSE b
Min(a, b) == IF a <= b THEN a ELSE b

NmsRadius == 3
MinPeakScore == 80
MaxCandidates == 15

\* array[i] of a typed array
At(array, i) == array[i + 1]

\* new Float32Array(size)
Float32Array(size) == [i \in 1..size |-> 0]

\* array.fill(0)
FillZero(array) == [i \in 1..Len(array) |-> 0]

\* _ensureBuffers with an else branch that clears nothing
EnsureBuffersUncleared(d, width, height) ==
  IF d.lastWidth # width \/ d.lastHeight # height
  THEN [d EXCEPT !.scoreMap = Float32Array(width * height),
                 !.smoothed = Float32Array(width * height),
                 !.lastWidth = width,
                 !.lastHeight = height]
  ELSE d

\* _ensureBuffers(width, height)
EnsureBuffers(d, width, height) ==
  IF d.lastWidth # width \/ d.lastHeight # height
  THEN [d EXCEPT !.scoreMap = Float32Array(width * height),
                 !.smoothed = Float32Array(width * height),
                 !.lastWidth = width,
                 !.lastHeight = height]
  ELSE [d EXCEPT !.scoreMap = FillZero(d.scoreMap),
                 !.smoothed = FillZero(d.smoothed)]

\* brightness * 0.7 + blueDiff * 0.3, and at least 80% of the brightness for
\* a saturated pixel
PixelScore(brightness, blueDiff) ==
  IF brightness > 200
  THEN Max((7 * brightness + 3 * blueDiff) \div 10, (8 * brightness) \div 10)
  ELSE (7 * brightness + 3 * blueDiff) \div 10

\* the pixels _computeScoreMap writes: the blue pixels it was given, or
\* without them the pixels of the mask and the very bright ones
ScoredPixels(f) ==
  IF Len(f.bluePixels) > 0
  THEN {f.bluePixels[k] : k \in 1..Len(f.bluePixels)}
  ELSE {i \in 0..(f.width * f.height - 1) :
          At(f.mask, i) > 0 \/ At(f.brightness, i) > 200}

\* _computeScoreMap(mask, brightness, blueDiff, width, height, output,
\* bluePixels): output afterwards
ComputeScoreMap(f, output) ==
  [n \in 1..Len(output) |->
     IF (n - 1) \in ScoredPixels(f)
     THEN PixelScore(At(f.brightness, n - 1), At(f.blueDiff, n - 1))
     ELSE output[n]]

\* the temporary buffer _boxBlur3x3 works in: this._tempBlur, allocated when
\* there is none or when its length is not width * height, then zeroed
TempBuffer(tempBlur, width, height) ==
  IF Len(tempBlur) = 0 \/ Len(tempBlur) # width * height
  THEN Float32Array(width * height)
  ELSE FillZero(tempBlur)

\* the horizontal pass of _boxBlur3x3 over a frame at least 2 wide: t
\* afterwards, in thirds
BlurRows(input, t, width, height) ==
  [n \in 1..Len(t) |->
     IF (n - 1) \div width >= height THEN t[n]
     ELSE IF (n - 1) % width = 0
     THEN At(input, n - 1) * 2 + At(input, n)
     ELSE IF (n - 1) % width = width - 1
     THEN At(input, n - 2) + At(input, n - 1) * 2
     ELSE At(input, n - 2) + At(input, n - 1) + At(input, n)]

\* the vertical pass of _boxBlur3x3 over a frame at least 2 high: output
\* afterwards, in ninths
BlurColumns(t, output, width, height) ==
  [n \in 1..Len(output) |->
     IF (n - 1) \div width >= height THEN output[n]
     ELSE IF (n - 1) \div width = height - 1
     THEN At(t, n - 1 - width) + At(t, n - 1) * 2
     ELSE IF (n - 1) \div width = 0
     THEN At(t, n - 1) * 2 + At(t, n - 1 + width)
     ELSE At(t, n - 1 - width) + At(t, n - 1) + At(t, n - 1 + width)]

\* the members of a set of numbers in ascending order
Ascending(S) ==
  [p \in 1..Cardinality(S) |->
     CHOOSE i \in S : Cardinality({j \in S : j < i}) = p - 1]

\* items.sort((a, b) => key(b) - key(a)), keys[i] the key of items[i]: the
\* sort is stable
SortedDescending(items, keys) ==
  [p \in 1..Len(items) |->
     items[CHOOSE i \in 1..Len(items) :
             Cardinality({j \in 1..Len(items) :
                            \/ keys[j] > keys[i]
                            \/ keys[j] = keys[i] /\ j < i}) = p - 1]]

\* array.slice(0, n)
Slice(array, n) == SubSeq(array, 1, Min(n, Len(array)))

RECURSIVE Total(_)
\* the sum of a sequence of numbers
Total(values) ==
  IF values = << >> THEN 0 ELSE Head(values) + Total(Tail(values))

\* the pixels of columns x0..x1 and rows y0..y1, row by row
PixelBlock(x0, x1, y0, y1, width) ==
  [p \in 1..((x1 - x0 + 1) * (y1 - y0 + 1)) |->
     (y0 + ((p - 1) \div (x1 - x0 + 1))) * width
       + x0 + ((p - 1) % (x1 - x0 + 1))]

\* the pixels of the window of radius r around (cx, cy), clipped to the
\* frame, row by row
Window(cx, cy, r, width, height) ==
  PixelBlock(Max(0, cx - r), Min(width - 1, cx + r),
              Max(0, cy - r), Min(height - 1, cy + r), width)

\* pixelsToCheck of _nms: the blue pixels, or without them every pixel that
\* scores at least minPeakScore
PixelsToCheck(scoreMap, width, height, bluePixels) ==
  IF Len(bluePixels) > 0 THEN bluePixels
  ELSE SelectSeq([n \in 1..(width * height) |-> n - 1],
                 LAMBDA i : At(scoreMap, i) >= MinPeakScore * 9)

\* no pixel of the window scores more than pixel idx
MaxOfWindow(scoreMap, idx, window) ==
  \A k \in 1..Len(window) :
    window[k] = idx \/ ~(At(scoreMap, window[k]) > At(scoreMap, idx))

\* isMax of _nms for a pixel that scores at least minPeakScore
IsLocalMax(scoreMap, idx, width, height) ==
  /\ At(scoreMap, idx) >= MinPeakScore * 9
  /\ MaxOfWindow(scoreMap, idx,
                 Window(idx % width, idx \div width, NmsRadius, width, height))

\* the peaks _nms pushes, in the order it finds them
PushedPeaks(scoreMap, width, height, pixels) ==
  [k \in 1..Len(pixels) |->
     [x |-> pixels[k] % width, y |-> pixels[k] \div width,
      score |-> At(scoreMap, pixels[k])]]

\* the pixels of pixelsToCheck that _nms finds to be local maxima
LocalMaxima(scoreMap, width, height, bluePixels) ==
  SelectSeq(PixelsToCheck(scoreMap, width, height, bluePixels),
            LAMBDA idx : IsLocalMax(scoreMap, idx, width, height))

\* the scores of the pixels
ScoresAt(scoreMap, pixels) ==
  [k \in 1..Len(pixels) |-> At(scoreMap, pixels[k])]

\* the end of _nms: the peaks sorted by descending score, at most
\* maxCandidates * 2 of them
StrongestPeaks(scoreMap, width, height, pixels) ==
  Slice(SortedDescending(PushedPeaks(scoreMap, width, height, pixels),
                         ScoresAt(scoreMap, pixels)),
        MaxCandidates * 2)

\* _nms(scoreMap, width, height, bluePixels)
Nms(scoreMap, width, height, bluePixels) ==
  StrongestPeaks(scoreMap, width, height,
                 LocalMaxima(scoreMap, width, height, bluePixels))

\* score squared, the weight _subPixelRefine gives a pixel (0 for a pixel
\* that scores nothing)
RefineWeights(scoreMap, pixels) ==
  [k \in 1..Len(pixels) |->
     IF At(scoreMap, pixels[k]) > 0
     THEN At(scoreMap, pixels[k]) * At(scoreMap, pixels[k])
     ELSE 0]

\* Math.max(0, Math.min(limit, num / den)) as the fraction <<num, den>>
Clamped(num, den, limit) ==
  IF num < 0 THEN <<0, 1>>
  ELSE IF num > limit * den THEN <<limit, 1>>
  ELSE <<num, den>>

\* the weighted centroid of the pixels, as fractions
CentroidOf(sumW, sumWX, sumWY, cx, cy, width, height) ==
  IF sumW > 0
  THEN [x |-> Clamped(sumWX, sumW, width - 1),
        y |-> Clamped(sumWY, sumW, height - 1)]
  ELSE [x |-> <<cx, 1>>, y |-> <<cy, 1>>]

\* the end of _subPixelRefine
Centroid(pixels, weights, cx, cy, width, height) ==
  CentroidOf(Total(weights),
             Total([k \in 1..Len(pixels) |-> (pixels[k] % width) * weights[k]]),
             Total([k \in 1..Len(pixels) |-> (pixels[k] \div width) * weights[k]]),
             cx, cy, width, height)

\* _subPixelRefine(scoreMap, cx, cy, width, height, radius)
SubPixelRefine(scoreMap, cx, cy, width, height, radius) ==
  Centroid(Window(cx, cy, radius, width, height),
           RefineWeights(scoreMap, Window(cx, cy, radius, width, height)),
           cx, cy, width, height)

\* dx * dx + dy * dy for pixel n seen from (cx, cy)
SquaredDistance(n, cx, cy, width) ==
  ((n % width) - cx) * ((n % width) - cx)
    + ((n \div width) - cy) * ((n \div width) - cy)

\* the pixels of the ring _computePointiness averages: those of the frame
\* at a distance of 3 to 5 from (cx, cy)
Ring(cx, cy, width, height) ==
  SelectSeq(Window(cx, cy, 5, width, height),
            LAMBDA n : /\ SquaredDistance(n, cx, cy, width) >= 9
                       /\ SquaredDistance(n, cx, cy, width) <= 25)

\* centerVal / Math.max(1, ringAvg) as a fraction, from the scores in ninths
PointinessOf(centerVal, ringSum, ringCount) ==
  IF centerVal <= 0 THEN <<0, 1>>
  ELSE IF ringCount = 0 \/ ringSum <= 9 * ringCount THEN <<centerVal, 9>>
  ELSE <<centerVal * ringCount, ringSum>>

\* the ring's sum and count
RingAverage(centerVal, ringScores) ==
  PointinessOf(centerVal, Total(ringScores), Len(ringScores))

\* _computePointiness(scoreMap, cx, cy, width, height)
ComputePointiness(scoreMap, cx, cy, width, height) ==
  RingAverage(At(scoreMap, cy * width + cx),
              ScoresAt(scoreMap, Ring(cx, cy, width, height)))

\* the score sampleR = 4 pixels away, 0 outside the frame
Sample(scoreMap, x, y, width, height) ==
  IF x >= 0 /\ x < width /\ y >= 0 /\ y < height
  THEN At(scoreMap, y * width + x)
  ELSE 0

\* Math.max(0, minFalloff) / maxFalloff as a fraction, from twice the two
\* falloffs
IsotropyOf(centerVal, hFalloff, vFalloff) ==
  IF centerVal <= 0 THEN <<0, 1>>
  ELSE IF Max(hFalloff, vFalloff) <= 0 THEN <<0, 1>>
  ELSE <<Max(0, Min(hFalloff, vFalloff)), Max(hFalloff, vFalloff)>>

\* _computeIsotropy(scoreMap, cx, cy, width, height)
ComputeIsotropy(scoreMap, cx, cy, width, height) ==
  IsotropyOf(At(scoreMap, cy * width + cx),
             2 * At(scoreMap, cy * width + cx)
               - (Sample(scoreMap, cx - 4, cy, width, height)
                  + Sample(scoreMap, cx + 4, cy, width, height)),
             2 * At(scoreMap, cy * width + cx)
               - (Sample(scoreMap, cx, cy - 4, width, height)
                  + Sample(scoreMap, cx, cy + 4, width, height)))

\* _estimateArea(scoreMap, cx, cy, width, height, peakScore)
EstimateArea(scoreMap, cx, cy, width, height, peakScore) ==
  Len(SelectSeq(Window(cx, cy, 5, width, height),
                LAMBDA n : 2 * At(scoreMap, n) >= peakScore))

\* the candidate detect() makes of a raw peak (px, py, pointiness and
\* isotropy are fractions, peakScore is in ninths; x, y and bbox follow from
\* px, py, peakX, peakY and the frame size)
CandidateAt(smoothed, peak, f, refined) ==
  [px |-> refined.x,
   py |-> refined.y,
   peakX |-> peak.x,
   peakY |-> peak.y,
   area |-> Max(1, EstimateArea(smoothed, peak.x, peak.y, f.width, f.height,
                                peak.score)),
   brightness |-> At(f.blueDiff, peak.y * f.width + peak.x),
   realBrightness |-> At(f.brightness, peak.y * f.width + peak.x),
   peakScore |-> peak.score,
   pointiness |-> ComputePointiness(smoothed, peak.x, peak.y, f.width, f.height),
   isotropy |-> ComputeIsotropy(smoothed, peak.x, peak.y, f.width, f.height)]

\* step 5 of detect() for one raw peak
Candidate(smoothed, peak, f) ==
  CandidateAt(smoothed, peak, f,
              SubPixelRefine(smoothed, peak.x, peak.y, f.width, f.height, 2))

\* c.pointiness >= this.minPointiness && c.isotropy >= this.minIsotropy,
\* with minPointiness 1.5 and minIsotropy 0.3
PointLike(c) ==
  /\ 2 * c.pointiness[1] >= 3 * c.pointiness[2]
  /\ 10 * c.isotropy[1] >= 3 * c.isotropy[2]

\* peakScore * pointiness * isotropy, the key detect() sorts by, in
\* thousandths (the product of the first two rounded to a whole number)
CompositeScore(c) ==
  Quot(c.peakScore * c.pointiness[1], 9 * c.pointiness[2])
    * Quot(1000 * c.isotropy[1], c.isotropy[2])

\* steps 6 and 7 of detect(): the point-like candidates sorted by their
\* composite score, at most maxCandidates of them
BestCandidates(filtered) ==
  Slice(SortedDescending(filtered,
                         [k \in 1..Len(filtered) |-> CompositeScore(filtered[k])]),
        MaxCandidates)

\* steps 4 to 7 of detect(): what it returns for the smoothed score map
PeaksOf(smoothed, rawPeaks, f) ==
  BestCandidates(SelectSeq([k \in 1..Len(rawPeaks) |->
                              Candidate(smoothed, rawPeaks[k], f)],
                           PointLike))

\* steps 2 to 7 of detect(): the detector afterwards and what it returns
Detected(d, f, scoreMap, t, smoothed) ==
  [detector |-> [d EXCEPT !.scoreMap = scoreMap, !.tempBlur = t,
                          !.smoothed = smoothed],
   peaks |-> PeaksOf(smoothed, Nms(smoothed, f.width, f.height, f.bluePixels), f)]

\* step 3 of detect(): the vertical pass of the blur
Smoothing(d, f, scoreMap, t) ==
  Detected(d, f, scoreMap, t, BlurColumns(t, d.smoothed, f.width, f.height))

\* step 3 of detect(): the horizontal pass of the blur
Blurring(d, f, scoreMap) ==
  Smoothing(d, f, scoreMap,
            BlurRows(scoreMap, TempBuffer(d.tempBlur, f.width, f.height),
                     f.width, f.height))

\* detect(mask, brightnessValues, blueDiffValues, width, height, downscale,
\* bluePixels) after _ensureBuffers
Scoring(d, f) == Blurring(d, f, ComputeScoreMap(f, d.scoreMap))

\* detect(mask, brightnessValues, blueDiffValues, width, height, downscale,
\* bluePixels) on detector d: the detector afterwards and what it returns
Detect(d, f) == Scoring(EnsureBuffers(d, f.width, f.height), f)

\* the pixels of the frames given to detect(): dark, blue (in the mask, not
\* saturated) and saturated outside the mask
Dark == [mask |-> 0, brightness |-> 0, blueDiff |-> 0]
Blue == [mask |-> 255, brightness |-> 200, blueDiff |-> 200]
Saturated == [mask |-> 0, brightness |-> 250, blueDiff |-> 0]
PixelKinds == {Dark, Blue, Saturated}

\* the sizes of the frames given to detect(): <<width, height>>
FrameSizes == {<<2, 2>>, <<4, 2>>, <<2, 4>>}

\* the pixels of a frame that is dark but for its first and its last pixel
PixelsOf(size, first, last) ==
  [n \in 1..(size[1] * size[2]) |->
     IF n = 1 THEN first ELSE IF n = size[1] * size[2] THEN last ELSE Dark]

\* the arguments of detect() for these pixels, with the list of the pixels
\* of the mask as bluePixels or without one
FrameOf(size, pixels, sparse) ==
  [width |-> size[1],
   height |-> size[2],
   mask |-> [n \in 1..Len(pixels) |-> pixels[n].mask],
   brightness |-> [n \in 1..Len(pixels) |-> pixels[n].brightness],
   blueDiff |-> [n \in 1..Len(pixels) |-> pixels[n].blueDiff],
   bluePixels |-> IF sparse
                  THEN Ascending({n - 1 : n \in {m \in 1..Len(pixels) :
                                                   pixels[m].mask > 0}})
                  ELSE << >>]

Frames ==
  {FrameOf(size, PixelsOf(size, first, last), sparse) :
     size \in FrameSizes, first \in PixelKinds, last \in {Dark, Blue},
     sparse \in BOOLEAN}

\* the history after a detect() call on frame f that returned peaks
Recorded(history, f, peaks) ==
  [calls |-> history.calls + 1,
   first |-> IF history.calls = 0
             THEN [fn |-> "detect", frame |-> f, peaks |-> peaks]
             ELSE history.first,
   last |-> [fn |-> "detect", frame |-> f, peaks |-> peaks],
   resized |-> \/ history.resized
               \/ /\ history.calls > 0
                  /\ \/ f.width # history.first.frame.width
                     \/ f.height # history.first.frame.height]

\* peakDetector.detect(...) runs on a frame
DetectCall ==
  /\ detection.calls < MaxDetects
  /\ \E f \in Frames :
       \E done \in {Detect(detector, f)} :
         /\ detector' = done.detector
         /\ detection' = Recorded(detection, f, done.peaks)
  /\ UNCHANGED <<trackerVars, appVars, call, ret, decoderVars, refineVars>>

\* a new PeakDetector, with the tracking application and the decoder idle
DetectorInit ==
  /\ tracker = AppTracker
  /\ trackResult = NoResult
  /\ predictions = << >>
  /\ lastOp = "init"
  /\ lastDets = << >>
  /\ seen = {}
  /\ cleared = NoCleared
  /\ emptyRun = -1
  /\ obsCount = 0
  /\ AppIdle
  /\ hasRVFC = TRUE
  /\ CompIdle

DetectorNext == DetectCall

DetectorSpec == DetectorInit /\ [][DetectorNext]_vars

\* ------------------------------------------------------------------------
\* The Levenberg-Marquardt refinement of the pose solver (src/pnp-solver.js)
\*
\* Image coordinates and residuals are in thousandths (One), squared
\* residuals in millionths.  The depths of the poses below divide 1000, so
\* every projection is exact.  The rotation vector is (0, 0, q * pi / 2), a
\* number q of quarter turns about the optical axis.  lambda is in units of
\* 0.001 / 2^LmMaxIter.  The step that _computeJacobian, the normal
\* equations and _solve6x6 yield is any step to a pose below, or none.
\* ------------------------------------------------------------------------

LmMaxIter == 4

\* the object points of the refinement
ObjPts ==
  << [x |-> 1, y |-> 0, z |-> 0], [x |-> 0, y |-> 1, z |-> 0],
     [x |-> -1, y |-> 0, z |-> 0], [x |-> 0, y |-> -1, z |-> 0],
     [x |-> 0, y |-> 0, z |-> 1] >>

\* _rodrigues(rvec) for q quarter turns about the optical axis
Rodrigues(q) ==
  CASE q % 4 = 0 -> << <<1, 0, 0>>, <<0, 1, 0>>, <<0, 0, 1>> >>
    [] q % 4 = 1 -> << <<0, -1, 0>>, <<1, 0, 0>>, <<0, 0, 1>> >>
    [] q % 4 = 2 -> << <<-1, 0, 0>>, <<0, -1, 0>>, <<0, 0, 1>> >>
    [] q % 4 = 3 -> << <<0, 1, 0>>, <<-1, 0, 0>>, <<0, 0, 1>> >>

\* px, py and pz of an object point under R and t
CameraPoint(R, t, P) ==
  [x |-> R[1][1] * P.x + R[1][2] * P.y + R[1][3] * P.z + t[1],
   y |-> R[2][1] * P.x + R[2][2] * P.y + R[2][3] * P.z + t[2],
   z |-> R[3][1] * P.x + R[3][2] * P.y + R[3][3] * P.z + t[3]]

\* the two residuals _computeResiduals pushes for a point
PointResiduals(p, img) ==
  IF Abs(p.z) = 0 THEN <<0, 0>>
  ELSE <<((One * p.x) \div p.z) - img.x, ((One * p.y) \div p.z) - img.y>>

\* _computeResiduals(objPts, normImgPts, R, t)
ComputeResiduals(objPts, normImgPts, R, t) ==
  [k \in 1..(2 * Len(objPts)) |->
     PointResiduals(CameraPoint(R, t, objPts[(k + 1) \div 2]),
                    normImgPts[(k + 1) \div 2])[2 - (k % 2)]]

\* invZ of _computeJacobian
InvZ(pz) == IF Abs(pz) > 0 THEN One \div pz ELSE 0

\* the two residuals _computeJacobian pushes for a point
JacobianPointResiduals(p, img) ==
  <<p.x * InvZ(p.z) - img.x, p.y * InvZ(p.z) - img.y>>

\* the residuals _computeJacobian returns
JacobianResiduals(objPts, normImgPts, R, t) ==
  [k \in 1..(2 * Len(objPts)) |->
     JacobianPointResiduals(CameraPoint(R, t, objPts[(k + 1) \div 2]),
                            normImgPts[(k + 1) \div 2])[2 - (k % 2)]]

\* residuals.reduce((s, r) => s + r * r, 0)
SquaredError(residuals) ==
  Total([k \in 1..Len(residuals) |-> residuals[k] * residuals[k]])

\* the poses of the refinement: the quarter turns and the translations
Poses ==
  [rvec : {0, 1}, tvec : {<<tx, 0, tz>> : tx \in {-1, 0, 1}, tz \in {1, 4}}]

\* the normalised image points of the object points seen from a pose, the
\* first one displaced by noise
NormImgPts(pose, noise) ==
  [i \in 1..Len(ObjPts) |->
     [x |-> ((One * CameraPoint(Rodrigues(pose.rvec), pose.tvec, ObjPts[i]).x)
               \div CameraPoint(Rodrigues(pose.rvec), pose.tvec, ObjPts[i]).z)
            + (IF i = 1 THEN noise ELSE 0),
      y |-> (One * CameraPoint(Rodrigues(pose.rvec), pose.tvec, ObjPts[i]).y)
               \div CameraPoint(Rodrigues(pose.rvec), pose.tvec, ObjPts[i]).z]]

\* the image points given to the refinement: the object points seen from
\* straight ahead, near or far, exactly or with noise
Images ==
  {NormImgPts([rvec |-> 0, tvec |-> <<0, 0, tz>>], noise) :
     tz \in {1, 4}, noise \in {0, 100}}

\* newErr < oldErr with the operands exchanged
AcceptsInverted(newErr, oldErr) == oldErr < newErr

\* if (newErr < oldErr)
Accepts(newErr, oldErr) == newErr < oldErr

\* the body of the loop after _solve6x6 returned a step to newPose
TryStep(newPose, oldErr, newErr) ==
  IF Accepts(newErr, oldErr)
  THEN /\ lm' = [lm EXCEPT !.rvec = newPose.rvec,
                           !.tvec = newPose.tvec,
                           !.lambda = lm.lambda \div 2,
                           !.iter = lm.iter + 1,
                           !.pc = IF Abs(oldErr - newErr) < 1
                                  THEN "return" ELSE "loop"]
       /\ lmStep' = [kind |-> "accept", rvec |-> lm.rvec, tvec |-> lm.tvec,
                     lambda |-> lm.lambda, oldErr |-> oldErr,
                     newErr |-> newErr]
  ELSE /\ lm' = [lm EXCEPT !.lambda = lm.lambda * 2, !.iter = lm.iter + 1]
       /\ lmStep' = [kind |-> "reject", rvec |-> lm.rvec, tvec |-> lm.tvec,
                     lambda |-> lm.lambda, oldErr |-> oldErr,
                     newErr |-> newErr]

\* _levenbergMarquardt(objPts, normImgPts, R0, t0, maxIter) is called
LmCall ==
  /\ lm.pc = "idle"
  /\ \E img \in Images, start \in Poses, maxIter \in 1..LmMaxIter :
       lm' = [pc |-> "loop", normImgPts |-> img, rvec |-> start.rvec,
              tvec |-> start.tvec, lambda |-> Pow2(LmMaxIter), iter |-> 0,
              maxIter |-> maxIter]
  /\ lmStep' = NoStep
  /\ UNCHANGED <<trackerVars, appVars, call, ret, decoderVars, detectorVars>>

\* one iteration of the loop: _solve6x6 returns no step, or a step
LmIterate ==
  /\ lm.pc = "loop"
  /\ lm.iter < lm.maxIter
  /\ \/ /\ lm' = [lm EXCEPT !.pc = "return"]
        /\ lmStep' = [kind |-> "singular", rvec |-> lm.rvec,
                      tvec |-> lm.tvec, lambda |-> lm.lambda]
     \/ \E newPose \in Poses :
          TryStep(newPose,
                  SquaredError(JacobianResiduals(ObjPts, lm.normImgPts,
                                                 Rodrigues(lm.rvec), lm.tvec)),
                  SquaredError(ComputeResiduals(ObjPts, lm.normImgPts,
                                                Rodrigues(newPose.rvec),
                                                newPose.tvec)))
  /\ UNCHANGED <<trackerVars, appVars, call, ret, decoderVars, detectorVars>>

\* the loop ends and _levenbergMarquardt returns
LmReturn ==
  /\ \/ lm.pc = "return"
     \/ lm.pc = "loop" /\ lm.iter >= lm.maxIter
  /\ lm' = [lm EXCEPT !.pc = "done"]
  /\ UNCHANGED lmStep
  /\ UNCHANGED <<trackerVars, appVars, call, ret, decoderVars, detectorVars>>

\* the pose solver before a refinement, with the rest idle
LmInit ==
  /\ tracker = AppTracker
  /\ trackResult = NoResult
  /\ predictions = << >>
  /\ lastOp = "init"
  /\ lastDets = << >>
  /\ seen = {}
  /\ cleared = NoCleared
  /\ emptyRun = -1
  /\ obsCount = 0
  /\ AppIdle
  /\ hasRVFC = TRUE
  /\ CompIdle

LmNext == LmCall \/ LmIterate \/ LmReturn

LmSpec == LmInit /\ [][LmNext]_vars

\* ------------------------------------------------------------------------
\* solve() of the pose solver on exact correspondences (src/pnp-solver.js)
\*
\* Image points are in pixels; with fx = fy = 1000 a pixel is a thousandth
\* of a normalised unit.  _jacobiEigen is not modelled: the eigenvectors it
\* returns for A^T A are named by the pose [R | t] that _dltEstimate
\* extracts from them, and for exact correspondences the eigenvector of
\* eigenvalue 0 holds the generating pose.
\* ------------------------------------------------------------------------

Fx == 1000
Fy == 1000
Cx == 640
Cy == 360

\* the image points of the object points seen from a pose, without noise
ImagePoints(pose) ==
  [i \in 1..Len(ObjPts) |->
     [x |-> ((Fx * CameraPoint(Rodrigues(pose.rvec), pose.tvec, ObjPts[i]).x)
               \div CameraPoint(Rodrigues(pose.rvec), pose.tvec, ObjPts[i]).z)
            + Cx,
      y |-> ((Fy * CameraPoint(Rodrigues(pose.rvec), pose.tvec, ObjPts[i]).y)
               \div CameraPoint(Rodrigues(pose.rvec), pose.tvec, ObjPts[i]).z)
            + Cy]]

\* step 1 of solve(): normImgPts
Normalised(imagePoints) ==
  [i \in 1..Len(imagePoints) |->
     [x |-> (One * (imagePoints[i].x - Cx)) \div Fx,
      y |-> (One * (imagePoints[i].y - Cy)) \div Fy]]

\* indices.sort((a, b) => eigenvalues[a] - eigenvalues[b]) of _svd
SvdIndices(eigenvalues) ==
  SortedDescending([i \in 1..Len(eigenvalues) |-> i],
                   [i \in 1..Len(eigenvalues) |-> -eigenvalues[i]])

\* the columns of the V that _svd returns
SvdColumns(eigen) ==
  [k \in 1..Len(eigen) |->
     eigen[SvdIndices([i \in 1..Len(eigen) |-> eigen[i].value])[k]].vector]

\* p of _dltEstimate: the last column of V
DltSolution(V) == V[Len(V)]

\* _dltEstimate(objPts, normImgPts), from the eigenvectors of A^T A
DltEstimate(eigen) == DltSolution(SvdColumns(eigen))

\* _computeReprojError(objPts, imgPts, R, t): the squared error of a point
ReprojSquare(p, img) ==
  IF Abs(p.z) = 0 THEN 0
  ELSE (((Fx * p.x) \div p.z) + Cx - img.x) * (((Fx * p.x) \div p.z) + Cx - img.x)
       + (((Fy * p.y) \div p.z) + Cy - img.y) * (((Fy * p.y) \div p.z) + Cy - img.y)

\* _computeReprojError(objPts, imgPts, R, t), in pixels
ComputeReprojError(objPts, imgPts, R, t) ==
  Sqrt(Total([i \in 1..Len(objPts) |->
                ReprojSquare(CameraPoint(R, t, objPts[i]), imgPts[i])])
         \div Len(objPts))

\* the poses correspondences are generated from
GeneratingPoses == {pose \in Poses : pose.rvec = 0 /\ pose.tvec[1] = 0}

\* what _jacobiEigen returns for the correspondences of a pose: the
\* eigenvector of eigenvalue 0 and one of a positive eigenvalue, in either
\* order
EigenOf(pose) ==
  UNION {{<<[value |-> 0, vector |-> pose], [value |-> 1, vector |-> other]>>,
          <<[value |-> 1, vector |-> other], [value |-> 0, vector |-> pose]>>} :
           other \in Poses \ {pose}}

\* the calls of solve() on exact correspondences
ExactCalls ==
  UNION {[fn : {"solveExact"}, pose : {pose}, eigen : EigenOf(pose)] :
           pose \in GeneratingPoses}

\* steps 1 to 3 of solve(): the refinement starts from the DLT estimate
SolveStart ==
  /\ call.fn = "solveExact"
  /\ ret = NoCall
  /\ lm.pc = "idle"
  /\ lm' = [pc |-> "loop",
            normImgPts |-> Normalised(ImagePoints(call.pose)),
            rvec |-> DltEstimate(call.eigen).rvec,
            tvec |-> DltEstimate(call.eigen).tvec,
            lambda |-> Pow2(LmMaxIter), iter |-> 0, maxIter |-> LmMaxIter]
  /\ lmStep' = NoStep
  /\ UNCHANGED <<trackerVars, appVars, call, ret, decoderVars, detectorVars>>

\* steps 4 and 5 of solve(): the result
SolveFinish ==
  /\ call.fn = "solveExact"
  /\ ret = NoCall
  /\ lm.pc = "done"
  /\ ret' = [fn |-> "solved", success |-> TRUE, rvec |-> lm.rvec,
             tvec |-> lm.tvec,
             reprojError |->
               ComputeReprojError(ObjPts, ImagePoints(call.pose),
                                  Rodrigues(lm.rvec), lm.tvec)]
  /\ UNCHANGED <<trackerVars, appVars, call, decoderVars, detectorVars,
                 refineVars>>

\* a solve() call on exact correspondences, with the rest idle
SolveInit ==
  /\ tracker = AppTracker
  /\ trackResult = NoResult
  /\ predictions = << >>
  /\ lastOp = "init"
  /\ lastDets = << >>
  /\ seen = {}
  /\ cleared = NoCleared
  /\ emptyRun = -1
  /\ obsCount = 0
  /\ AppIdle
  /\ hasRVFC = TRUE
  /\ call \in ExactCalls
  /\ ret = NoCall
  /\ DecoderIdle
  /\ DetectorIdle
  /\ RefineIdle

SolveNext == SolveStart \/ LmIterate \/ LmReturn \/ SolveFinish

SolveSpec == SolveInit /\ [][SolveNext]_vars

\* ------------------------------------------------------------------------
\* Claims about the components
\* ------------------------------------------------------------------------

\* the call was given insufficient input: fewer than 5 candidates for the
\* matcher, fewer than 4 correspondences or arrays of different lengths for
\* the solver
Insufficient ==
  \/ call.fn = "match" /\ Len(call.candidates) < 5
  \/ call.fn = "solve" /\ (\/ Len(call.objectPoints) < 4
                           \/ Len(call.objectPoints) # Len(call.imagePoints))

\* C17 as stated: insufficient input is always answered with a result
\* object that has success = false and a diagnostic reason, never with null
C17_InsufficientIsFailureObject ==
  (ret # NoCall /\ Insufficient) =>
    (ret.kind = "object" /\ ~ret.success /\ ret.error # "")

\* C17 as the code has it: the solver answers insufficient input with an
\* object that has success = false and the reason "Need at least 4 point
\* correspondences"; the five-LED matcher answers fewer than 5 candidates
\* with null
C17_InsufficientSignals ==
  (ret # NoCall /\ Insufficient) =>
    IF call.fn = "solve"
    THEN /\ ret.kind = "object"
         /\ ~ret.success
         /\ ret.error = "Need at least 4 point correspondences"
    ELSE ret = Null

C17_Witness ==
  /\ call.fn = "match"
  /\ Len(call.candidates) = 4
  /\ ret = Null

\* C18 as stated: the exact pattern (the rectangle of aspect ratio 1.544 and
\* the top-centre point at the modelled offset, and nothing else) is matched
\* with success and a ratioError of about 0 (at most one thousandth) under
\* each sensitivity preset
C18_ExactPatternMatches ==
  (ret # NoCall /\ call.fn = "match" /\ call.candidates \in ExactPatterns) =>
    (ret.kind = "object" /\ ret.success /\ ret.metrics.ratioError <= 1)

\* the fifth candidate of the call lies below the centre of the rectangle
\* that the first four form
FifthBelowCentre ==
  /\ call.fn = "match"
  /\ Len(call.candidates) = 5
  /\ SubSeq(call.candidates, 1, 4) \in RectangleOrders
  /\ call.candidates[5].y > PatternCentre.y

\* C19 as stated: no success for a rectangle with a fifth point below its
\* centre, and in every successful match the point labelled 5 lies no lower
\* than any of the other four and within the horizontal tolerance of their
\* centre
C19_NoSuccessBelowCentre ==
  (ret # NoCall /\ call.fn = "match") =>
    /\ FifthBelowCentre => ~(ret.kind = "object" /\ ret.success)
    /\ (ret.kind = "object" /\ ret.success) =>
         /\ \A i \in 1..4 : ret.points[5].y <= ret.points[i].y
         /\ ret.metrics.horizontalOffset
              <= Presets[call.sensitivity].centerTol * 10

\* the foreground pixels of a mask
Foreground(mask) == {i \in DOMAIN mask : mask[i] # 0}

\* pixels i and j are neighbours to the left, right, top or bottom
Neighbours(i, j, width) ==
  \/ j = i + 1 /\ j % width # 0
  \/ i = j + 1 /\ i % width # 0
  \/ j = i + width
  \/ i = j + width

\* the foreground pixels reached from the pixels S through neighbours
RECURSIVE Reached(_, _, _)
Reached(S, fg, width) ==
  LET T == S \cup {j \in fg : \E i \in S : Neighbours(i, j, width)}
  IN IF T = S THEN S ELSE Reached(T, fg, width)

\* the 4-connected foreground component of every foreground pixel
Components(mask, width) ==
  [i \in Foreground(mask) |-> Reached({i}, Foreground(mask), width)]

\* the roots and areas agree with the components comp of the pixels fg
Resolved(fg, comp, root, area) ==
  /\ \A i, j \in fg : (root[i] = root[j]) <=> (comp[i] = comp[j])
  /\ Cardinality({root[i] : i \in fg}) = Cardinality({comp[i] : i \in fg})
  /\ \A i \in fg : area[root[i]] = Cardinality(comp[i])
  /\ \A r \in DOMAIN area : r \notin {root[i] : i \in fg} => area[r] = 0

\* C20: after labelling and its resolution, two foreground pixels have the
\* same root label exactly if they are 4-connected through foreground
\* pixels, there are as many distinct root labels as 4-connected foreground
\* components, and every foreground pixel is counted once, in the area of
\* its own component
C20_LabelsAreComponents ==
  (ret # NoCall /\ call.fn = "label") =>
    Resolved(Foreground(call.mask), Components(call.mask, call.width),
             ret.root, ret.area)

\* a mask on which the first pass gave one component two labels
C20_Witness ==
  /\ call.fn = "label"
  /\ ret # NoCall
  /\ ret.nextLabel > Cardinality({ret.root[i] : i \in Foreground(call.mask)})

\* f assigns the entries of matched to distinct blobs at the same positions
AssignsDistinctBlobs(f, matched, blobs) ==
  /\ \A k, l \in DOMAIN matched : k # l => f[k] # f[l]
  /\ \A k \in DOMAIN matched :
       blobs[f[k]].x = matched[k].x /\ blobs[f[k]].y = matched[k].y

\* C30: matching fresh candidates to predictions is one-to-one: the matched
\* entries are distinct candidates, no feature id occurs twice among them,
\* and every entry lies within the search radius of the prediction whose id
\* it carries
C30_MatchingIsOneToOne ==
  (ret # NoCall /\ call.fn = "matchBlobs") =>
    /\ \A k, l \in DOMAIN ret.matched :
         k # l => ret.matched[k].id # ret.matched[l].id
    /\ \A k \in DOMAIN ret.matched :
         \E i \in DOMAIN call.predictions :
           /\ call.predictions[i].id = ret.matched[k].id
           /\ Dist2(ret.matched[k], call.predictions[i])
                < SearchRadius * SearchRadius
    /\ \E f \in [DOMAIN ret.matched -> DOMAIN call.blobs] :
         AssignsDistinctBlobs(f, ret.matched, call.blobs)

\* two predictions within the search radius of the only blob: one of them
\* gets it
C30_Witness ==
  /\ call.fn = "matchBlobs"
  /\ ret # NoCall
  /\ Len(call.blobs) = 1
  /\ Len(call.predictions) = 2
  /\ \A i \in 1..2 : Dist2(call.blobs[1], call.predictions[i])
                       < SearchRadius * SearchRadius
  /\ Len(ret.matched) = 1

\* the positions of a list of points
Positions(points) == {<<points[i].x, points[i].y>> : i \in DOMAIN points}

\* the side of the centroid of four points (sx, sy: four times the centroid)
\* on which p lies: right or not, top or not
Side(p, sx, sy) == <<4 * p.x > sx, 4 * p.y < sy>>

\* points 1..4 lie right-top, right-bottom, left-bottom and left-top of
\* their centroid, and point 5 is the topmost of the five
InPatternOrder(points) ==
  LET sx == points[1].x + points[2].x + points[3].x + points[4].x
      sy == points[1].y + points[2].y + points[3].y + points[4].y
  IN /\ Side(points[1], sx, sy) = <<TRUE, TRUE>>
     /\ Side(points[2], sx, sy) = <<TRUE, FALSE>>
     /\ Side(points[3], sx, sy) = <<FALSE, FALSE>>
     /\ Side(points[4], sx, sy) = <<FALSE, TRUE>>
     /\ \A i \in 1..4 : points[5].y <= points[i].y

\* of five points, two of the four below the (first) topmost one lie in the
\* same quadrant of the centroid of those four
TwoInOneQuadrant(points) ==
  \E t \in 1..5 :
    /\ \A j \in 1..5 : points[t].y < points[j].y
                         \/ (points[t].y = points[j].y /\ t <= j)
    /\ \E i, j \in (1..5) \ {t} :
         /\ i # j
         /\ Side(points[i],
                 points[1].x + points[2].x + points[3].x + points[4].x
                   + points[5].x - points[t].x,
                 points[1].y + points[2].y + points[3].y + points[4].y
                   + points[5].y - points[t].y)
              = Side(points[j],
                     points[1].x + points[2].x + points[3].x + points[4].x
                       + points[5].x - points[t].x,
                     points[1].y + points[2].y + points[3].y + points[4].y
                       + points[5].y - points[t].y)

\* C26: a successful match is five distinct candidates with the ids 1..5 in
\* order, id 5 the topmost and ids 1..4 the right-top, right-bottom,
\* left-bottom and left-top points relative to the centroid of those four;
\* five candidates of which two fall in the same quadrant are rejected
C26_MatchIsLabelledPattern ==
  (ret # NoCall /\ call.fn = "match") =>
    /\ ret # Null =>
         /\ ret.success
         /\ Len(ret.points) = 5
         /\ \A i \in 1..5 : ret.points[i].id = i
         /\ Cardinality(Positions(ret.points)) = 5
         /\ Positions(ret.points) \subseteq Positions(call.candidates)
         /\ InPatternOrder(ret.points)
    /\ (Len(call.candidates) = 5 /\ TwoInOneQuadrant(call.candidates)) =>
         ret = Null

\* the pattern is found among other candidates
C26_Witness ==
  /\ call.fn = "match"
  /\ Len(call.candidates) > 5
  /\ ret # NoCall
  /\ ret # Null
  /\ InPatternOrder(ret.points)

\* C27 as stated: a successful match returns the lowest score among all
\* 5-point subsets of the considered candidates that pass _verifyGeometry
C27_GloballyLowestScore ==
  (ret # NoCall /\ call.fn = "match" /\ ret # Null) =>
    \A c \in Combinations(Len(call.candidates)) :
      VerifyGeometry(PointsOf(call.candidates, c),
                     Presets[call.sensitivity]) # Null
        => ret.score <= VerifyGeometry(PointsOf(call.candidates, c),
                                       Presets[call.sensitivity]).score

\* C28 as stated: the number of combinations a match call submits to
\* _verifyGeometry, which a successful match reports as combinationsTested,
\* never exceeds maxCombinations of the preset
C28_CombinationsCapped ==
  (ret # NoCall /\ call.fn = "match" /\ ret # Null) =>
    ret.combinationsTested <= Presets[call.sensitivity].maxCombinations

\* the consecutive vertical spacings of the strips ys (heights in ascending
\* order) deviate from their mean by more than tol hundredths of it
SpacingDeviates(ys, tol) ==
  LET n == Len(ys)
      total == ys[n] - ys[1]
  IN /\ n >= 2
     /\ total > 0
     /\ \E i \in 1..(n - 1) :
          \/ (n - 1) * (ys[i + 1] - ys[i]) * 100 > (100 + tol) * total
          \/ (n - 1) * (ys[i + 1] - ys[i]) * 100 < (100 - tol) * total

\* the heights of the strips of the call, ascending
HeightsAscending ==
  [k \in 1..Len(call.stripBlobs) |->
     CHOOSE y \in {call.stripBlobs[i].y : i \in 1..Len(call.stripBlobs)} :
       /\ Cardinality({i \in 1..Len(call.stripBlobs) :
                         call.stripBlobs[i].y < y}) < k
       /\ Cardinality({i \in 1..Len(call.stripBlobs) :
                         call.stripBlobs[i].y <= y}) >= k]

\* C29 as stated: strips whose spacings deviate beyond the tolerance of the
\* preset produce no strip correspondences
C29_InconsistentSpacingRejected ==
  (ret # NoCall /\ call.fn = "matchStrips"
     /\ SpacingDeviates(HeightsAscending, StripSpacingTolerance[call.level]))
    => ret.matched = << >>

\* C29 as the code has it: the spacing check only warns, exactly when the
\* spacings deviate beyond the tolerance of the preset; whatever it finds,
\* the topmost strips, three at most, are assigned top to bottom to
\* STRIP_TOP, STRIP_MID and STRIP_BOT
C29_SpacingOnlyWarns ==
  (ret # NoCall /\ call.fn = "matchStrips") =>
    /\ ret.warned <=>
         SpacingDeviates(HeightsAscending, StripSpacingTolerance[call.level])
    /\ Len(ret.matched) = (IF Len(call.stripBlobs) < 3
                           THEN Len(call.stripBlobs) ELSE 3)
    /\ \A i \in DOMAIN ret.matched :
         /\ ret.matched[i].id = StripIds[i]
         /\ ret.matched[i].y = HeightsAscending[i]
         /\ \E j \in DOMAIN call.stripBlobs :
              /\ call.stripBlobs[j].x = ret.matched[i].x
              /\ call.stripBlobs[j].y = ret.matched[i].y
    /\ \A i, j \in DOMAIN ret.matched : i # j => ret.matched[i].x # ret.matched[j].x

\* three strips of inconsistent spacing, given bottom first, are warned
\* about and still assigned
C29_Witness ==
  /\ call.fn = "matchStrips"
  /\ ret # NoCall
  /\ ret.warned
  /\ Len(ret.matched) = 3
  /\ call.stripBlobs[1].y > call.stripBlobs[2].y

\* ------------------------------------------------------------------------
\* Claims about the packet decoder
\* ------------------------------------------------------------------------

\* C24 as stated: a capture begins only when the last PreambleLength symbols
\* received are the complete preamble, never after fewer symbols than the
\* preamble has or on a part of it
C24_CaptureOnlyAfterFullPreamble ==
  decodeEvent = "matched" =>
    /\ Len(symbolStream) >= PreambleLength
    /\ SubSeq(symbolStream, Len(symbolStream) - PreambleLength + 1,
              Len(symbolStream)) = Preamble

\* the bits of the last FramesPerPacket symbols received
LastPacketBits ==
  BitsOf(LastSlice(symbolStream, FramesPerPacket), BitsPerFrame)

\* C25: a capture ends after exactly FramesPerPacket further symbols; an ID
\* is reported only when the CRC of those symbols is right, a packet with a
\* wrong CRC is dropped without reporting an ID, and either way the decoder
\* is back in the preamble search with an empty capture buffer
C25_CaptureEndsAndResyncs ==
  /\ sinceStart <= FramesPerPacket
  /\ capturing => (sinceStart = Len(captureSymbols)
                     /\ sinceStart < FramesPerPacket)
  /\ (sinceStart >= 0 /\ sinceStart < FramesPerPacket) => capturing
  /\ sinceStart = FramesPerPacket => (~capturing /\ captureSymbols = << >>)
  /\ decodeEvent \in {"decoded", "crcfail"} <=>
       (sinceStart = FramesPerPacket /\ decodeEvent \notin {"none", "off"})
  /\ decodeEvent = "decoded" =>
       (CrcOk(LastPacketBits) /\ reported = IdValue(LastPacketBits))
  /\ decodeEvent = "crcfail" => ~CrcOk(LastPacketBits)
  /\ reported # -1 => decodeEvent = "decoded"

\* a packet is decoded after an earlier packet has ended
C25_Witness ==
  /\ endedBefore
  /\ decodeEvent = "decoded"
  /\ decodeStatus = "ID decoded"
  /\ reported # -1

ResidualOf(rvec, tvec) ==
  SquaredError(ComputeResiduals(ObjPts, lm.normImgPts, Rodrigues(rvec), tvec))

C23_ExactPoseRecovered ==
  ret.fn = "solved" =>
    /\ ret.success
    /\ ret.reprojError = 0
    /\ ret.rvec = call.pose.rvec
    /\ ret.tvec = call.pose.tvec

====
